---- MODULE Spec2Model ----
(***************************************************************************)
(* SkyDB (v1, deprecated API) of skynet-js: the registry-entry based       *)
(* mutable key-value layer.  One (publicKey, dataKey) pair is modelled;    *)
(* several asynchronous callers operate on it through one portal.          *)
(*                                                                         *)
(* Every async function is cut at its awaits: one action per stretch of    *)
(* code between two suspension points, one action per portal response.     *)
(***************************************************************************)
EXTENDS Integers, Sequences, FiniteSets, TLC

(***************************************************************************)
(* Bounds of the model.                                                    *)
(***************************************************************************)
NumClients == 2
MaxOps == 3

Clients == 1..NumClients

(***************************************************************************)
(* BigInt.  Revisions are JavaScript bigints; the values that matter lie   *)
(* around 0 and around 2^64 - 1, so a bigint is a tuple of five 16-bit     *)
(* limbs, most significant first (limb 1 holds bits 64 and up).            *)
(***************************************************************************)
LimbBase == 2^16
LimbMax == LimbBase - 1
LimbIdx == 1..5

BigInt0 == <<0, 0, 0, 0, 0>>
BigInt1 == <<0, 0, 0, 0, 1>>

\* a + b, ripple carry from the least significant limb
BigAdd(a, b) ==
    LET cin[i \in LimbIdx] ==
            IF i = 5 THEN 0 ELSE (a[i + 1] + b[i + 1] + cin[i + 1]) \div LimbBase
    IN  [i \in LimbIdx |-> (a[i] + b[i] + cin[i]) % LimbBase]

\* a > b
BigGT(a, b) ==
    \E i \in LimbIdx : a[i] > b[i] /\ \A j \in 1..(i - 1) : a[j] = b[j]

MAX_REVISION == <<0, LimbMax, LimbMax, LimbMax, LimbMax>>

\* assertUint64: "ok" or the reason it throws
assertUint64(int) ==
    IF BigGT(BigInt0, int) THEN "negative"
    ELSE IF BigGT(int, MAX_REVISION) THEN "exceeds 2^64-1"
    ELSE "ok"

(***************************************************************************)
(* JavaScript values are tagged records.                                   *)
(***************************************************************************)
Undefined == [kind |-> "undefined"]
Null == [kind |-> "null"]
Num(n) == [kind |-> "number", num |-> n]
Str(s) == [kind |-> "string", str |-> s]
Bool(b) == [kind |-> "boolean", bool |-> b]
Bytes(b) == [kind |-> "Uint8Array", bytes |-> b]
Obj(f) == [kind |-> "object", fields |-> f]

typeof(v) ==
    CASE v.kind = "undefined" -> "undefined"
      [] v.kind = "number" -> "number"
      [] v.kind = "string" -> "string"
      [] v.kind = "boolean" -> "boolean"
      [] OTHER -> "object"

\* !!v
Truthy(v) ==
    CASE v.kind = "undefined" -> FALSE
      [] v.kind = "null" -> FALSE
      [] v.kind = "number" -> v.num # 0
      [] v.kind = "string" -> v.str # <<>>
      [] v.kind = "boolean" -> v.bool
      [] OTHER -> TRUE

\* obj[key]
Prop(obj, key) ==
    IF obj.kind = "object" /\ key \in DOMAIN obj.fields
    THEN obj.fields[key] ELSE Undefined

(***************************************************************************)
(* Strings are sequences of one-character strings; byte arrays are         *)
(* sequences of 0..255.                                                    *)
(***************************************************************************)
startsWith(str, prefix) ==
    Len(prefix) <= Len(str) /\ SubSeq(str, 1, Len(prefix)) = prefix

endsWith(str, suffix) ==
    Len(suffix) <= Len(str)
    /\ SubSeq(str, Len(str) - Len(suffix) + 1, Len(str)) = suffix

\* str.slice(n)
slice(str, n) == SubSeq(str, n + 1, Len(str))

\* trimSuffix(str, suffix, limit); limit is Undefined or Num(n)
RECURSIVE trimSuffix(_, _, _)
trimSuffix(str, suffix, limit) ==
    IF ~endsWith(str, suffix) THEN str
    ELSE IF limit # Undefined /\ limit.num <= 0 THEN str
    ELSE trimSuffix(SubSeq(str, 1, Len(str) - Len(suffix)), suffix,
                    IF Truthy(limit) THEN Num(limit.num - 1) ELSE limit)

\* trimPrefix(str, prefix, limit)
RECURSIVE trimPrefix(_, _, _)
trimPrefix(str, prefix, limit) ==
    IF ~startsWith(str, prefix) THEN str
    ELSE IF limit # Undefined /\ limit.num <= 0 THEN str
    ELSE trimPrefix(slice(str, Len(prefix)), prefix,
                    IF Truthy(limit) THEN Num(limit.num - 1) ELSE limit)

trimUriPrefix(str, prefix) ==
    LET shortPrefix == trimSuffix(prefix, <<"/">>, Undefined)
    IN  IF startsWith(str, prefix) THEN slice(str, Len(prefix))
        ELSE IF startsWith(str, shortPrefix) THEN slice(str, Len(shortPrefix))
        ELSE str

URI_SKYNET_PREFIX == <<"s", "i", "a", ":", "/", "/">>

formatSkylink(skylink) ==
    IF skylink = <<>> THEN skylink
    ELSE IF ~startsWith(skylink, URI_SKYNET_PREFIX) THEN URI_SKYNET_PREFIX \o skylink
    ELSE skylink

areEqualUint8Arrays(a, b) ==
    Len(a) = Len(b) /\ \A i \in 1..Len(a) : a[i] = b[i]

RAW_SKYLINK_SIZE == 34
BASE64_ENCODED_SKYLINK_SIZE == 46
MAX_ENTRY_LENGTH == 70

\* new Uint8Array(n)
ZeroBytes(n) == [i \in 1..n |-> 0]

EMPTY_SKYLINK == ZeroBytes(RAW_SKYLINK_SIZE)
DELETION_ENTRY_DATA == ZeroBytes(RAW_SKYLINK_SIZE)

(***************************************************************************)
(* URL-safe base64 without padding, as used for skylinks: 34 raw bytes     *)
(* are 46 characters.                                                      *)
(***************************************************************************)
Base64Alphabet ==
    << "A", "B", "C", "D", "E", "F", "G", "H", "I", "J", "K", "L", "M",
       "N", "O", "P", "Q", "R", "S", "T", "U", "V", "W", "X", "Y", "Z",
       "a", "b", "c", "d", "e", "f", "g", "h", "i", "j", "k", "l", "m",
       "n", "o", "p", "q", "r", "s", "t", "u", "v", "w", "x", "y", "z",
       "0", "1", "2", "3", "4", "5", "6", "7", "8", "9", "-", "_" >>

Base64Chars == {Base64Alphabet[i] : i \in DOMAIN Base64Alphabet}

\* the value of each character of the alphabet
Base64Code ==
    [ch \in Base64Chars |-> (CHOOSE i \in DOMAIN Base64Alphabet : Base64Alphabet[i] = ch) - 1]

Base64Index(ch) == Base64Code[ch]

ByteAt(bytes, k) == IF k \in DOMAIN bytes THEN bytes[k] ELSE 0

\* the character for bits 6i .. 6i+5 (i from 0) of the byte string
toBase64(bytes) ==
    [n \in 1..((Len(bytes) * 8 + 5) \div 6) |->
        LET bit == 6 * (n - 1)
            q == bit \div 8
            r == bit % 8
            w == ByteAt(bytes, q + 1) * 256 + ByteAt(bytes, q + 2)
        IN  Base64Alphabet[((w \div (2 ^ (10 - r))) % 64) + 1]]

SextetAt(str, k) == IF k \in DOMAIN str THEN Base64Index(str[k]) ELSE 0

\* the byte for bits 8j .. 8j+7 (j from 0) of the character string
fromBase64(str) ==
    [n \in 1..((Len(str) * 6) \div 8) |->
        LET bit == 8 * (n - 1)
            q == bit \div 6
            r == bit % 6
            w == SextetAt(str, q + 1) * 4096 + SextetAt(str, q + 2) * 64
                 + SextetAt(str, q + 3)
        IN  (w \div (2 ^ (10 - r))) % 256]

\* the character code of the n-th character of the alphabet (n from 0)
CharCode(n) ==
    IF n < 26 THEN 65 + n
    ELSE IF n < 52 THEN 97 + (n - 26)
    ELSE IF n < 62 THEN 48 + (n - 52)
    ELSE IF n = 62 THEN 45 ELSE 95

\* Buffer.from(array).toString("utf-8"), bytes outside the alphabet shown as "?"
uint8ArrayToStringUtf8(array) ==
    [i \in DOMAIN array |->
        IF \E n \in 0..63 : CharCode(n) = array[i]
        THEN Base64Alphabet[(CHOOSE n \in 0..63 : CharCode(n) = array[i]) + 1]
        ELSE "?"]

\* Buffer.from(str, "utf-8"), for strings over the alphabet
stringToUint8ArrayUtf8(str) == [i \in DOMAIN str |-> CharCode(Base64Index(str[i]))]

(***************************************************************************)
(* JSON.stringify and the JSON parse of a downloaded file.  A JSON text is *)
(* kept as the value it denotes: stringify drops the properties whose      *)
(* value is undefined, at every depth.                                     *)
(***************************************************************************)
RECURSIVE JSONstringify(_)
JSONstringify(v) ==
    IF v.kind = "object"
    THEN LET keep == {k \in DOMAIN v.fields : v.fields[k].kind # "undefined"}
         IN  Obj([k \in keep |-> JSONstringify(v.fields[k])])
    ELSE v

JSONparse(text) == text

JSON_RESPONSE_VERSION == 2

\* the caller's json arguments
JsonA == Obj("a" :> Num(1))
JsonEmpty == Obj(<<>>)
JsonEnvelopeLike == Obj("_data" :> JsonA @@ "_v" :> Num(1))
JsonWithUndefined == Obj("a" :> Undefined)
JsonInputs == {JsonA, JsonEmpty, JsonEnvelopeLike, JsonWithUndefined, Null}

\* a JSON object in the strict sense: an object that JSON can represent
RECURSIVE IsJSON(_)
IsJSON(v) ==
    CASE v.kind = "undefined" -> FALSE
      [] v.kind = "object" -> \A k \in DOMAIN v.fields : IsJSON(v.fields[k])
      [] OTHER -> TRUE

(***************************************************************************)
(* The portal's content store.  A skylink is derived from the content, so  *)
(* the store is a fixed table: file number i has the raw skylink           *)
(* RawSkylink(i), and an upload answers with the link of the content.      *)
(***************************************************************************)
\* the envelope without its version tag
Envelope_untagged(json) == Obj("_data" :> json)

\* the hidden _data and _v fields set by getOrCreateRegistryEntry
Envelope(json) == Obj("_data" :> json @@ "_v" :> Num(JSON_RESPONSE_VERSION))

\* files that no setJSON wrote: JSON texts that are no object, and objects
\* with one of the two fields of the envelope, or with a field that is falsy
\* or is no object
ForeignFiles ==
    << Str(<<"x">>), Num(1), Null, Bool(TRUE),
       Obj("_data" :> JsonA @@ "_v" :> Num(0)),
       Obj("_data" :> Str(<<"s">>) @@ "_v" :> Num(JSON_RESPONSE_VERSION)),
       Obj("_data" :> Null @@ "_v" :> Num(JSON_RESPONSE_VERSION)),
       Obj("_data" :> JsonA),
       Obj("_v" :> Num(JSON_RESPONSE_VERSION) @@ "a" :> Num(1)) >>

Files ==
    << JSONstringify(Envelope(JsonA)),
       JSONstringify(Envelope(JsonEnvelopeLike)),
       JSONstringify(Envelope(JsonWithUndefined)),
       JSONstringify(JsonA) >> \o ForeignFiles

RawSkylink(i) == [k \in 1..RAW_SKYLINK_SIZE |-> IF k <= 2 THEN 0 ELSE i]

\* the skylinks of the store and their encodings, computed once
RawSkylinks == [i \in DOMAIN Files |-> RawSkylink(i)]
EncodedSkylinks == [i \in DOMAIN Files |-> toBase64(RawSkylinks[i])]
DecodedSkylinks == [i \in DOMAIN Files |-> fromBase64(EncodedSkylinks[i])]

encodeSkylinkBase64(bytes) ==
    IF \E i \in DOMAIN Files : RawSkylinks[i] = bytes
    THEN EncodedSkylinks[CHOOSE i \in DOMAIN Files : RawSkylinks[i] = bytes]
    ELSE toBase64(bytes)

decodeSkylinkBase64(str) ==
    IF \E i \in DOMAIN Files : EncodedSkylinks[i] = str
    THEN DecodedSkylinks[CHOOSE i \in DOMAIN Files : EncodedSkylinks[i] = str]
    ELSE fromBase64(str)

FileNumber(text) == CHOOSE i \in DOMAIN Files : Files[i] = text

\* the base64 skylink of every file of the store
FileLinks == [i \in DOMAIN Files |-> encodeSkylinkBase64(RawSkylink(i))]

\* client.uploadFile(file): the skylink of the uploaded content
uploadFile(text) == [skylink |-> formatSkylink(FileLinks[FileNumber(text)])]

\* the content stored under a formatted data link, Undefined if there is none
FileAt(dataLink) ==
    LET bare == trimUriPrefix(dataLink, URI_SKYNET_PREFIX)
    IN  IF \E i \in DOMAIN Files : FileLinks[i] = bare
        THEN JSONparse(Files[CHOOSE i \in DOMAIN Files : FileLinks[i] = bare])
        ELSE Undefined

(***************************************************************************)
(* Registry entries.  One (publicKey, dataKey) pair is modelled, so the    *)
(* portal's registry is the one entry stored for it (Null when absent).    *)
(***************************************************************************)
DataKey == <<"k">>

Entry(data, revision) == [dataKey |-> DataKey, data |-> data, revision |-> revision]

\* getNextRevisionFromEntry adding two instead of one
getNextRevisionFromEntry_plus2(entry) ==
    LET revision == IF entry = Null THEN BigInt0
                    ELSE BigAdd(entry.revision, <<0, 0, 0, 0, 2>>)
    IN  IF BigGT(revision, MAX_REVISION)
        THEN [threw |-> TRUE, error |-> "RevisionOverflow"]
        ELSE [threw |-> FALSE, revision |-> revision]

\* getNextRevisionFromEntry without the bound check, the sum cut to 64 bits
getNextRevisionFromEntry_wrap(entry) ==
    LET revision == IF entry = Null THEN BigInt0
                    ELSE BigAdd(entry.revision, BigInt1)
    IN  [threw |-> FALSE, revision |-> [revision EXCEPT ![1] = 0]]

\* getNextRevisionFromEntry(entry): the revision, or the error it throws
getNextRevisionFromEntry(entry) ==
    LET revision == IF entry = Null THEN BigInt0
                    ELSE BigAdd(entry.revision, BigInt1)
    IN  IF BigGT(revision, MAX_REVISION)
        THEN [threw |-> TRUE, error |-> "RevisionOverflow"]
        ELSE [threw |-> FALSE, revision |-> revision]

\* validateObject that takes every value
validateObject_any(value) == TRUE

\* validateObject(name, value, valueKind): TRUE when it does not throw
validateObject(value) == typeof(value) = "object" /\ value # Null

\* validateEntryData(data, allowDeletionEntryData): TRUE when it does not throw
validateEntryData(data, allowDeletionEntryData) ==
    /\ Len(data) <= MAX_ENTRY_LENGTH
    /\ allowDeletionEntryData \/ ~areEqualUint8Arrays(data, DELETION_ENTRY_DATA)

\* parseSkylink of a skylink string: the base64 skylink, Null when invalid
parseSkylink(str) ==
    LET bare == trimUriPrefix(str, URI_SKYNET_PREFIX)
    IN  IF Len(bare) = BASE64_ENCODED_SKYLINK_SIZE
           /\ \A i \in DOMAIN bare : bare[i] \in Base64Chars
        THEN Str(bare) ELSE Null

\* checkCachedDataLink(rawDataLink, cachedDataLink); the hint is Undefined or Str
checkCachedDataLink(rawDataLink, cachedDataLink) ==
    IF Truthy(cachedDataLink)
    THEN parseSkylink(cachedDataLink.str) = Str(rawDataLink)
    ELSE FALSE

\* parseDataLink that takes base64 text whatever its caller asks for
parseDataLink_legacyAlways(data, legacy) ==
    IF Len(data) = BASE64_ENCODED_SKYLINK_SIZE
    THEN [threw |-> FALSE, rawDataLink |-> uint8ArrayToStringUtf8(data),
          dataLink |-> formatSkylink(uint8ArrayToStringUtf8(data))]
    ELSE IF Len(data) = RAW_SKYLINK_SIZE
    THEN [threw |-> FALSE, rawDataLink |-> encodeSkylinkBase64(data),
          dataLink |-> formatSkylink(encodeSkylinkBase64(data))]
    ELSE [threw |-> TRUE, error |-> "ValidationError"]

\* parseDataLink(data, legacy): the two links, or the error it throws
parseDataLink(data, legacy) ==
    IF legacy /\ Len(data) = BASE64_ENCODED_SKYLINK_SIZE
    THEN [threw |-> FALSE, rawDataLink |-> uint8ArrayToStringUtf8(data),
          dataLink |-> formatSkylink(uint8ArrayToStringUtf8(data))]
    ELSE IF Len(data) = RAW_SKYLINK_SIZE
    THEN [threw |-> FALSE, rawDataLink |-> encodeSkylinkBase64(data),
          dataLink |-> formatSkylink(encodeSkylinkBase64(data))]
    ELSE [threw |-> TRUE, error |-> "ValidationError"]

\* getSkyDBRegistryEntry without the test for the empty skylink
SkyDBEntry_unfiltered(entry) == entry

\* the filter of getSkyDBRegistryEntry on the entry the registry returned
SkyDBEntry(entry) ==
    IF entry = Null \/ areEqualUint8Arrays(entry.data, EMPTY_SKYLINK)
    THEN Null ELSE entry

(***************************************************************************)
(* Validation of the caller's arguments, and the options of a call.  Each  *)
(* validate operator is TRUE when the function does not throw.             *)
(***************************************************************************)
validateString(value) == typeof(value) = "string"

HexChars ==
    {"0", "1", "2", "3", "4", "5", "6", "7", "8", "9",
     "a", "b", "c", "d", "e", "f", "A", "B", "C", "D", "E", "F"}

\* /^[0-9A-Fa-f]*$/g.test(str)
isHexString(str) == \A i \in DOMAIN str : str[i] \in HexChars

validateHexString(value) == validateString(value) /\ isHexString(value.str)

\* parseInt(ch, 16) of one hex character
HexValue(ch) ==
    CASE ch \in {"a", "A"} -> 10
      [] ch \in {"b", "B"} -> 11
      [] ch \in {"c", "C"} -> 12
      [] ch \in {"d", "D"} -> 13
      [] ch \in {"e", "E"} -> 14
      [] ch \in {"f", "F"} -> 15
      [] OTHER -> CHOOSE n \in 0..9 : ToString(n) = ch

\* hexToUint8Array(str): the bytes of the groups of two characters (the
\* last group may have one), or the error it throws
hexToUint8Array(str) ==
    IF ~isHexString(str) \/ str = <<>>
    THEN [threw |-> TRUE, error |-> "ValidationError"]
    ELSE [threw |-> FALSE,
          bytes |-> [i \in 1..((Len(str) + 1) \div 2) |->
                        IF 2 * i <= Len(str)
                        THEN 16 * HexValue(str[2 * i - 1]) + HexValue(str[2 * i])
                        ELSE HexValue(str[2 * i - 1])]]

\* n.toString(16) of one byte
toString16(n) ==
    LET digit(d) == <<"0", "1", "2", "3", "4", "5", "6", "7", "8", "9",
                      "a", "b", "c", "d", "e", "f">>[d + 1]
    IN  IF n < 16 THEN <<digit(n)>> ELSE <<digit(n \div 16), digit(n % 16)>>

\* toHexString(byteArray): ("0" + (byte & 0xff).toString(16)).slice(-2) of each
\* byte, one after the other
RECURSIVE toHexString(_)
toHexString(byteArray) ==
    IF byteArray = <<>> THEN <<>>
    ELSE LET padded == <<"0">> \o toString16(Head(byteArray) % 256)
         IN  SubSeq(padded, Len(padded) - 1, Len(padded)) \o toHexString(Tail(byteArray))

\* validatePublicKey(name, publicKey, valueKind)
validatePublicKey(publicKey) == validateHexString(publicKey)

validateUint8Array(value) == value.kind = "Uint8Array"

\* validateSkylinkString(name, value, valueKind): the parsed skylink, Null
\* when it throws
validateSkylinkString(value) ==
    IF ~validateString(value) THEN Null ELSE parseSkylink(value.str)

\* the names every object literal inherits from Object.prototype
ObjectPrototype ==
    {"constructor", "hasOwnProperty", "isPrototypeOf", "propertyIsEnumerable",
     "toLocaleString", "toString", "valueOf", "__proto__"}

\* property in obj, for an object literal
In(property, obj) ==
    property \in DOMAIN obj.fields \/ property \in ObjectPrototype

\* validateOptionalObject(name, value, valueKind, model)
validateOptionalObject(value, model) ==
    \/ ~Truthy(value)
    \/ /\ validateObject(value)
       /\ \A property \in DOMAIN value.fields : In(property, model)

\* the own enumerable properties that a spread copies
Own(value) == IF value.kind = "object" THEN value.fields ELSE <<>>

\* { ...a, ...b, ...c }
Spread3(a, b, c) == Obj(Own(c) @@ Own(b) @@ Own(a))

\* the options each operation recognizes, with their defaults
DEFAULT_GET_ENTRY_OPTIONS == Obj("hashedDataKeyHex" :> Bool(FALSE))

DEFAULT_SET_ENTRY_OPTIONS == Obj("hashedDataKeyHex" :> Bool(FALSE))

DEFAULT_GET_JSON_OPTIONS ==
    Obj("hashedDataKeyHex" :> Bool(FALSE) @@ "cachedDataLink" :> Undefined)

DEFAULT_SET_JSON_OPTIONS == Obj("hashedDataKeyHex" :> Bool(FALSE))

DEFAULT_GET_METADATA_OPTIONS ==
    Obj("endpointGetMetadata" :> Str(<<"/", "s", "k", "y", "n", "e", "t", "/",
                                       "m", "e", "t", "a", "d", "a", "t", "a">>))

DEFAULT_SET_ENTRY_DATA_OPTIONS ==
    Obj("hashedDataKeyHex" :> Bool(FALSE) @@ "allowDeletionEntryData" :> Bool(FALSE))

(***************************************************************************)
(* Validation of the portal's answer to a download (download.js).  An      *)
(* operator that may throw evaluates to a record whose field threw tells   *)
(* whether it did.                                                         *)
(***************************************************************************)
Array(items) == [kind |-> "array", items |-> items]

Digits == {"0", "1", "2", "3", "4", "5", "6", "7", "8", "9"}

\* the text is an array of digits: [d], [d,e], ...
IsDigitArray(str) ==
    /\ Len(str) >= 3
    /\ Len(str) % 2 = 1
    /\ str[1] = "["
    /\ str[Len(str)] = "]"
    /\ \A k \in 2..(Len(str) - 1) :
          IF k % 2 = 0 THEN str[k] \in Digits ELSE str[k] = ","

\* JSON.parse of the texts null, [] and [d,...] for digits d, and of texts
\* that are no JSON at all
JSONparseString(str) ==
    CASE str = <<"n", "u", "l", "l">> -> [threw |-> FALSE, value |-> Null]
      [] str = <<"[", "]">> -> [threw |-> FALSE, value |-> Array(<<>>)]
      [] IsDigitArray(str) ->
            [threw |-> FALSE,
             value |-> Array([k \in 1..((Len(str) - 1) \div 2) |->
                                Num(HexValue(str[2 * k]))])]
      [] OTHER -> [threw |-> TRUE, error |-> "SyntaxError"]

\* a resolver skylink: version 2 in the two low bits of its bitfield
EntryLinkBytes == [k \in 1..RAW_SKYLINK_SIZE |-> IF k = 1 THEN 1 ELSE 0]
EntryLink == toBase64(EntryLinkBytes)

\* a second resolver skylink
EntryLink2 == toBase64([k \in 1..RAW_SKYLINK_SIZE |-> IF k = 1 THEN 1 ELSE 9])

\* isSkylinkV1(skylink): version 1 in the two low bits of the bitfield
isSkylinkV1(skylink) == decodeSkylinkBase64(skylink)[1] % 4 = 0

\* The step n of a proof stands for a signed registry entry: ProofSteps[n] has
\* the entry link derived from the entry's public key and data key, and the
\* skylink that is the entry's data.
ProofSteps ==
    <<[entryLink |-> EntryLink, data |-> EntryLink2],
      [entryLink |-> EntryLink, data |-> FileLinks[2]],
      [entryLink |-> EntryLink2, data |-> FileLinks[2]]>>

\* validateRegistryProof(proof, {resolverSkylink, skylink}): TRUE when it does
\* not throw.  The proof is not empty, the entry link of its first step is
\* the resolver skylink, the entry link of each later step is the data of
\* the step before, and the data of the last step is the skylink.
validateRegistryProof(proofArray, resolverSkylink, skylink) ==
    LET steps == proofArray.items
    IN  /\ steps # <<>>
        /\ \A k \in DOMAIN steps : steps[k].num \in DOMAIN ProofSteps
        /\ ProofSteps[steps[1].num].entryLink = resolverSkylink
        /\ \A k \in 2..Len(steps) :
              ProofSteps[steps[k].num].entryLink = ProofSteps[steps[k - 1].num].data
        /\ ProofSteps[steps[Len(steps)].num].data = skylink

Ok == [threw |-> FALSE]
Threw(error) == [threw |-> TRUE, error |-> error]

\* validateRegistryProofResponse that does not look at the proof of a data link
validateRegistryProofResponse_anyProof(inputSkylink, dataLink, proof) ==
    LET parsed == IF Truthy(proof) THEN JSONparseString(proof.str)
                  ELSE [threw |-> FALSE, value |-> Array(<<>>)]
    IN  IF parsed.threw \/ ~Truthy(parsed.value) THEN Threw("ProofParseError")
        ELSE IF isSkylinkV1(inputSkylink.str)
        THEN IF inputSkylink # dataLink THEN Threw("ProofMismatch") ELSE Ok
        ELSE IF inputSkylink = dataLink THEN Threw("ProofMismatch")
        ELSE IF ~validateRegistryProof(parsed.value, inputSkylink.str, dataLink.str)
        THEN Threw("ProofInvalid")
        ELSE Ok

\* validateRegistryProofResponse that takes the proof of a resolver link
\* unvalidated
validateRegistryProofResponse_unproved(inputSkylink, dataLink, proof) ==
    LET parsed == IF Truthy(proof) THEN JSONparseString(proof.str)
                  ELSE [threw |-> FALSE, value |-> Array(<<>>)]
    IN  IF parsed.threw \/ ~Truthy(parsed.value) THEN Threw("ProofParseError")
        ELSE IF isSkylinkV1(inputSkylink.str)
        THEN IF inputSkylink # dataLink THEN Threw("ProofMismatch")
             ELSE IF Truthy(proof) THEN Threw("UnexpectedProof")
             ELSE Ok
        ELSE IF inputSkylink = dataLink THEN Threw("ProofMismatch")
        ELSE Ok

\* validateRegistryProofResponse that does not compare the two links
validateRegistryProofResponse_anyLink(inputSkylink, dataLink, proof) ==
    LET parsed == IF Truthy(proof) THEN JSONparseString(proof.str)
                  ELSE [threw |-> FALSE, value |-> Array(<<>>)]
    IN  IF parsed.threw \/ ~Truthy(parsed.value) THEN Threw("ProofParseError")
        ELSE IF isSkylinkV1(inputSkylink.str)
        THEN IF Truthy(proof) THEN Threw("UnexpectedProof") ELSE Ok
        ELSE IF inputSkylink = dataLink THEN Ok
        ELSE IF ~validateRegistryProof(parsed.value, inputSkylink.str, dataLink.str)
        THEN Threw("ProofInvalid")
        ELSE Ok

\* validateRegistryProofResponse(inputSkylink, dataLink, proof): the error
\* names stand for the messages "Could not parse 'skynet-proof' header as
\* JSON", "Expected returned skylink to be the same as input data link" and
\* "... to be different from input entry link", "Expected 'skynet-proof'
\* header to be empty for data link", and the error of validateRegistryProof
validateRegistryProofResponse(inputSkylink, dataLink, proof) ==
    LET parsed == IF Truthy(proof) THEN JSONparseString(proof.str)
                  ELSE [threw |-> FALSE, value |-> Array(<<>>)]
    IN  IF parsed.threw \/ ~Truthy(parsed.value) THEN Threw("ProofParseError")
        ELSE IF isSkylinkV1(inputSkylink.str)
        THEN IF inputSkylink # dataLink THEN Threw("ProofMismatch")
             ELSE IF Truthy(proof) THEN Threw("UnexpectedProof")
             ELSE Ok
        ELSE IF inputSkylink = dataLink THEN Threw("ProofMismatch")
        ELSE IF ~validateRegistryProof(parsed.value, inputSkylink.str, dataLink.str)
        THEN Threw("ProofInvalid")
        ELSE Ok

\* the error that wraps the cause of an invalid response
ResponseInvalid(cause) == [error |-> "ResponseInvalid", cause |-> cause]

\* validateGetFileContentResponse that does not look at the portal's header
validateGetFileContentResponse_anyPortal(theResponse, inputSkylink) ==
    LET headers == theResponse.headers
        contentType == Prop(headers, "content-type")
        skylink == Prop(headers, "skynet-skylink")
        proof == Prop(headers, "skynet-proof")
    IN  IF ~Truthy(theResponse.data) /\ theResponse.data # Str(<<>>)
        THEN Threw(ResponseInvalid("DataMissing"))
        ELSE IF ~Truthy(headers) THEN Threw(ResponseInvalid("HeadersMissing"))
        ELSE IF ~Truthy(contentType) \/ ~validateString(contentType)
        THEN Threw(ResponseInvalid("ContentTypeMissing"))
        ELSE IF ~Truthy(skylink) \/ validateSkylinkString(skylink) = Null
        THEN Threw(ResponseInvalid("SkylinkMissing"))
        ELSE LET valid == validateRegistryProofResponse(inputSkylink, skylink, proof)
             IN  IF valid.threw THEN Threw(ResponseInvalid(valid.error)) ELSE Ok

\* validateGetFileContentResponse(response, inputSkylink)
validateGetFileContentResponse(theResponse, inputSkylink) ==
    LET headers == theResponse.headers
        contentType == Prop(headers, "content-type")
        portalUrl == Prop(headers, "skynet-portal-api")
        skylink == Prop(headers, "skynet-skylink")
        proof == Prop(headers, "skynet-proof")
    IN  IF ~Truthy(theResponse.data) /\ theResponse.data # Str(<<>>)
        THEN Threw(ResponseInvalid("DataMissing"))
        ELSE IF ~Truthy(headers) THEN Threw(ResponseInvalid("HeadersMissing"))
        ELSE IF ~Truthy(contentType) \/ ~validateString(contentType)
        THEN Threw(ResponseInvalid("ContentTypeMissing"))
        ELSE IF ~Truthy(portalUrl) \/ ~validateString(portalUrl)
        THEN Threw(ResponseInvalid("PortalUrlMissing"))
        ELSE IF ~Truthy(skylink) \/ validateSkylinkString(skylink) = Null
        THEN Threw(ResponseInvalid("SkylinkMissing"))
        ELSE LET valid == validateRegistryProofResponse(inputSkylink, skylink, proof)
             IN  IF valid.threw THEN Threw(ResponseInvalid(valid.error)) ELSE Ok

\* validateGetMetadataResponse(response, inputSkylink)
validateGetMetadataResponse(theResponse, inputSkylink) ==
    LET headers == theResponse.headers
        portalUrl == Prop(headers, "skynet-portal-api")
        skylink == Prop(headers, "skynet-skylink")
        proof == Prop(headers, "skynet-proof")
    IN  IF ~Truthy(theResponse.data) THEN Threw(ResponseInvalid("DataMissing"))
        ELSE IF ~Truthy(headers) THEN Threw(ResponseInvalid("HeadersMissing"))
        ELSE IF ~Truthy(portalUrl) \/ ~validateString(portalUrl)
        THEN Threw(ResponseInvalid("PortalUrlMissing"))
        ELSE IF ~Truthy(skylink) \/ validateSkylinkString(skylink) = Null
        THEN Threw(ResponseInvalid("SkylinkMissing"))
        ELSE LET valid == validateRegistryProofResponse(inputSkylink, skylink, proof)
             IN  IF valid.threw THEN Threw(ResponseInvalid(valid.error)) ELSE Ok

\* extractGetFileContentResponse(response)
extractGetFileContentResponse(theResponse) ==
    [data |-> theResponse.data,
     contentType |-> Prop(theResponse.headers, "content-type"),
     portalUrl |-> Prop(theResponse.headers, "skynet-portal-api"),
     skylink |-> Str(formatSkylink(Prop(theResponse.headers, "skynet-skylink").str))]

(***************************************************************************)
(* State.                                                                  *)
(***************************************************************************)
VARIABLES
    enforcesRevision,   \* the portal accepts a write only with a strictly greater revision
    stored,             \* the registry entry the portal holds, Null when there is none
    accepted,           \* number of registry writes the portal has accepted
    lastWrite,          \* the last accepted write: the call, the entry it replaced, the
                        \* entry its operation had read and when, when the writer
                        \* of the replaced entry had read, and what the call returned
    lastGet,            \* the last read operation that returned: the call, when it
                        \* read, and its outcome
    ops,                \* number of operations started
    pc,                 \* per caller: where its operation is suspended
    call,               \* per caller: the operation and its arguments
    signedEntry,        \* per caller: the answer of registry.getEntry
    skyfile,            \* per caller: the answer of uploadFile
    entry,              \* per caller: the entry built for registry.setEntry
    result,             \* per caller: how the operation settled
    calls,              \* per caller: the network requests issued by the operation
    readAt,             \* per caller: value of accepted when its registry read was answered
    writeAt,            \* per caller: value of accepted when its write reached the portal
    response,           \* per caller: the answer to the request of its download
    resolvedHns,        \* per caller: the answer of resolveHns
    writer,             \* per caller: the state of the write stream of its download
    thisCustomOptions   \* the options the client was built with

portalVars == <<enforcesRevision, stored, accepted, lastWrite, thisCustomOptions>>
vars == <<enforcesRevision, stored, accepted, lastWrite, lastGet, ops,
          pc, call, signedEntry, skyfile, entry, result, calls, readAt, writeAt,
          response, resolvedHns, writer, thisCustomOptions>>

\* this.customOptions
ClientOptions == thisCustomOptions

Pending == [kind |-> "pending"]

Resolved(value) == [status |-> "resolved", value |-> value]
Rejected(error) == [status |-> "rejected", error |-> error]

\* revisions an entry may already have when the callers start
CarryRevision == <<0, 0, 0, 0, LimbMax>>
LastButOneRevision == <<0, LimbMax, LimbMax, LimbMax, LimbMax - 1>>

InitEntries ==
    { Null,
      Entry(RawSkylink(4), CarryRevision),
      Entry(RawSkylink(1), LastButOneRevision),
      Entry(RawSkylink(1), MAX_REVISION) }

\* the caller's arguments
PrivateKey == Str(<<"a", "b">>)
PublicKey == Str(<<"c", "d">>)
DataInputs == {Bytes(<<1, 2, 3>>), Bytes(DELETION_ENTRY_DATA)}
DataLinkInputs == {Str(uploadFile(Files[4]).skylink), Str(<<"x">>)}
CachedDataLinkInputs == {Undefined, Str(uploadFile(Files[1]).skylink)}
\* arguments of the wrong type or form: a key that is no string or is not
\* hexadecimal, a private key of no bytes, json that is no object, data that
\* is no Uint8Array, a data link that is no skylink
BadPublicKeys == {Num(1), Str(<<"z", "z">>)}
BadPrivateKeys == BadPublicKeys \cup {Str(<<>>)}
BadDataKeys == {Num(1)}
BadJsons == {Null, Str(<<"x">>)}
BadData == {Str(<<"x">>)}
BadDataLinks == {Str(<<"x">>), Num(1)}
BadArgs == BadPrivateKeys \cup BadDataKeys \cup BadJsons \cup BadData \cup BadDataLinks

\* at most one of the arguments is malformed
OneBad(args) == Cardinality({i \in DOMAIN args : args[i] \in BadArgs}) <= 1

\* options objects: one with a recognized key, one with a key that no
\* operation recognizes, one with a key that is the name of a member of
\* Object.prototype
OptionInputs ==
    {Obj("hashedDataKeyHex" :> Bool(FALSE)),
     Obj("unknownOption" :> Num(1)),
     Obj("toString" :> Num(1))}

\* data of the greatest length an entry takes, and of one byte more
EntryLengthInputs ==
    {Bytes([i \in 1..MAX_ENTRY_LENGTH |-> 1]),
     Bytes([i \in 1..(MAX_ENTRY_LENGTH + 1) |-> 1])}
AllowDeletionInputs == {Undefined, Obj("allowDeletionEntryData" :> Bool(TRUE))}
CachedDataLink(cached) ==
    IF cached = Undefined THEN Undefined ELSE Obj("cachedDataLink" :> cached)

\* no caller has started, and the registry holds one of the entries
InitClient(entries, options) ==
    /\ enforcesRevision \in BOOLEAN
    /\ stored \in entries
    /\ thisCustomOptions \in options
    /\ accepted = 0
    /\ lastWrite = Null
    /\ lastGet = Null
    /\ ops = 0
    /\ pc = [c \in Clients |-> "idle"]
    /\ call = [c \in Clients |-> Undefined]
    /\ signedEntry = [c \in Clients |-> Undefined]
    /\ skyfile = [c \in Clients |-> Undefined]
    /\ entry = [c \in Clients |-> Undefined]
    /\ result = [c \in Clients |-> Undefined]
    /\ calls = [c \in Clients |-> <<>>]
    /\ readAt = [c \in Clients |-> 0]
    /\ writeAt = [c \in Clients |-> 0]
    /\ response = [c \in Clients |-> Undefined]
    /\ resolvedHns = [c \in Clients |-> Undefined]
    /\ writer = [c \in Clients |-> "none"]

\* the client was built without options of its own
InitWith(entries) == InitClient(entries, {Obj(<<>>)})

Init == InitWith(InitEntries)

\* the continuations of a settled promise run before the next event is taken
\* from the queue: nothing else happens between an operation's settling and
\* its caller's having the outcome
Quiet == \A c \in Clients : pc[c] # "done"

\* the operation settles at once, before any request is issued
Throw(c, theCall, error) ==
    /\ pc' = [pc EXCEPT ![c] = "done"]
    /\ call' = [call EXCEPT ![c] = theCall]
    /\ result' = [result EXCEPT ![c] = Rejected(error)]
    /\ UNCHANGED <<signedEntry, skyfile, entry, calls, readAt, writeAt, response,
                   resolvedHns, writer>>

\* the operation suspends at label with the given requests in flight
Suspend(c, theCall, label, requests) ==
    /\ pc' = [pc EXCEPT ![c] = label]
    /\ call' = [call EXCEPT ![c] = theCall]
    /\ calls' = [calls EXCEPT ![c] = requests]
    /\ result' = [result EXCEPT ![c] = Pending]
    /\ signedEntry' = [signedEntry EXCEPT ![c] = Pending]
    /\ skyfile' = [skyfile EXCEPT ![c] =
                      IF "uploadFile" \in {requests[i] : i \in DOMAIN requests}
                      THEN Pending ELSE Undefined]
    /\ UNCHANGED <<entry, readAt, writeAt, response, resolvedHns, writer>>

\* a caller is between two operations, and one more may be started
CanStart(c) == pc[c] = "idle" /\ ops < MaxOps /\ Quiet

\* the caller's operation has settled
Settled(c) == pc[c] = "done"

ReadOps == {"getEntryData", "getJSON", "getRawBytes"}

\* the caller has the outcome of its operation; the locals of the call are gone
Return(c) ==
    /\ Settled(c)
    /\ lastGet' = IF call[c].op \in ReadOps /\ signedEntry[c] \notin {Undefined, Pending}
                  THEN [call |-> call[c], readAt |-> readAt[c], result |-> result[c]]
                  ELSE lastGet
    /\ pc' = [pc EXCEPT ![c] = "idle"]
    /\ call' = [call EXCEPT ![c] = Undefined]
    /\ signedEntry' = [signedEntry EXCEPT ![c] = Undefined]
    /\ skyfile' = [skyfile EXCEPT ![c] = Undefined]
    /\ entry' = [entry EXCEPT ![c] = Undefined]
    /\ result' = [result EXCEPT ![c] = Undefined]
    /\ calls' = [calls EXCEPT ![c] = <<>>]
    /\ readAt' = [readAt EXCEPT ![c] = 0]
    /\ writeAt' = [writeAt EXCEPT ![c] = 0]
    /\ response' = [response EXCEPT ![c] = Undefined]
    /\ resolvedHns' = [resolvedHns EXCEPT ![c] = Undefined]
    /\ writer' = [writer EXCEPT ![c] = "none"]
    /\ UNCHANGED <<portalVars, ops>>

(***************************************************************************)
(* setJSON, up to the Promise.all in getOrCreateRegistryEntry: the upload  *)
(* and the registry read are both started.                                 *)
(***************************************************************************)
setJSON(c, privateKey, dataKey, json, customOptions) ==
    /\ CanStart(c)
    /\ ops' = ops + 1
    /\ UNCHANGED <<portalVars, lastGet>>
    /\ LET theCall == [op |-> "setJSON", privateKey |-> privateKey,
                       dataKey |-> dataKey, json |-> json,
                       customOptions |-> customOptions]
       IN  IF \/ ~validateHexString(privateKey)
              \/ ~validateString(dataKey)
              \/ ~validateObject(json)
              \/ ~validateOptionalObject(customOptions, DEFAULT_SET_JSON_OPTIONS)
              \/ hexToUint8Array(privateKey.str).threw
           THEN Throw(c, theCall, "ValidationError")
           ELSE Suspend(c, theCall, "getOrCreateRegistryEntry",
                        <<"uploadFile", "getEntry">>)

\* an upload whose answer depends on whether the registry read was answered
\* before it
uploadFileAnswer_late(c) ==
    /\ pc[c] = "getOrCreateRegistryEntry"
    /\ Quiet
    /\ skyfile[c] = Pending
    /\ skyfile' = [skyfile EXCEPT ![c] =
                      IF signedEntry[c] = Pending
                      THEN uploadFile(JSONstringify(Envelope(call[c].json)))
                      ELSE uploadFile(JSONstringify(call[c].json))]
    /\ UNCHANGED <<portalVars, lastGet, ops, pc, call, signedEntry, entry, result, calls,
                   readAt, writeAt, response, resolvedHns, writer>>

\* the upload started by getOrCreateRegistryEntry is answered
uploadFileAnswer(c) ==
    /\ pc[c] = "getOrCreateRegistryEntry"
    /\ Quiet
    /\ skyfile[c] = Pending
    /\ skyfile' = [skyfile EXCEPT ![c] =
                      uploadFile(JSONstringify(Envelope(call[c].json)))]
    /\ UNCHANGED <<portalVars, lastGet, ops, pc, call, signedEntry, entry, result, calls,
                   readAt, writeAt, response, resolvedHns, writer>>

\* the registry read started by getOrCreateRegistryEntry is answered
getEntryAnswer(c) ==
    /\ pc[c] = "getOrCreateRegistryEntry"
    /\ Quiet
    /\ signedEntry[c] = Pending
    /\ signedEntry' = [signedEntry EXCEPT ![c] = [entry |-> stored]]
    /\ readAt' = [readAt EXCEPT ![c] = accepted]
    /\ UNCHANGED <<portalVars, lastGet, ops, pc, call, skyfile, entry, result, calls, writeAt,
                   response, resolvedHns, writer>>

\* a request that was answered with an error
Failed(error) == [kind |-> "failed", error |-> error]

\* the errors registry.getEntry fails with
GetEntryErrors == {"SignatureInvalid", "GetEntryFailed"}

\* registry.setEntry is called with newEntry
CallSetEntry(c, newEntry) ==
    /\ pc' = [pc EXCEPT ![c] = "setEntry"]
    /\ entry' = [entry EXCEPT ![c] = newEntry]
    /\ calls' = [calls EXCEPT ![c] = Append(calls[c], "setEntry")]
    /\ UNCHANGED result

\* the operation fails
Reject(c, error) ==
    /\ pc' = [pc EXCEPT ![c] = "done"]
    /\ result' = [result EXCEPT ![c] = Rejected(error)]
    /\ UNCHANGED <<entry, calls>>

\* the operation returns value
Resolve(c, value) ==
    /\ pc' = [pc EXCEPT ![c] = "done"]
    /\ result' = [result EXCEPT ![c] = Resolved(value)]
    /\ UNCHANGED <<entry, calls>>

\* the upload fails and the operation goes on waiting
uploadFileError_unjoined(c) ==
    /\ pc[c] = "getOrCreateRegistryEntry"
    /\ Quiet
    /\ skyfile[c] = Pending
    /\ skyfile' = [skyfile EXCEPT ![c] = Failed("UploadFailed")]
    /\ UNCHANGED <<portalVars, lastGet, ops, pc, call, signedEntry, entry, result, calls,
                   readAt, writeAt, response, resolvedHns, writer>>

\* the upload started by getOrCreateRegistryEntry fails: the Promise.all
\* rejects, and with it getOrCreateRegistryEntry and setJSON
uploadFileError(c) ==
    /\ pc[c] = "getOrCreateRegistryEntry"
    /\ Quiet
    /\ skyfile[c] = Pending
    /\ skyfile' = [skyfile EXCEPT ![c] = Failed("UploadFailed")]
    /\ Reject(c, "UploadFailed")
    /\ UNCHANGED <<portalVars, lastGet, ops, call, signedEntry, readAt, writeAt, response,
                   resolvedHns, writer>>

\* the registry read of an operation fails: the operation fails with the
\* error of the read
getEntryError(c, error) ==
    /\ pc[c] \in {"getOrCreateRegistryEntry", "getNextRegistryEntry", "getSkyDBRegistryEntry"}
    /\ Quiet
    /\ signedEntry[c] = Pending
    /\ signedEntry' = [signedEntry EXCEPT ![c] = Failed(error)]
    /\ Reject(c, error)
    /\ UNCHANGED <<portalVars, lastGet, ops, call, skyfile, readAt, writeAt, response,
                   resolvedHns, writer>>

(***************************************************************************)
(* getOrCreateRegistryEntry after the Promise.all, and setJSON up to its   *)
(* await of registry.setEntry.                                             *)
(***************************************************************************)
\* getOrCreateRegistryEntry that takes the revision from the entry the
\* registry holds when the two answers are in
getOrCreateRegistryEntry_current(c) ==
    /\ pc[c] = "getOrCreateRegistryEntry"
    /\ Quiet
    /\ signedEntry[c] # Pending
    /\ skyfile[c] # Pending
    /\ LET revision == getNextRevisionFromEntry(stored)
           dataLink == trimUriPrefix(skyfile[c].skylink, URI_SKYNET_PREFIX)
           data == decodeSkylinkBase64(dataLink)
       IN  IF revision.threw THEN Reject(c, revision.error)
           ELSE IF Len(data) # RAW_SKYLINK_SIZE THEN Reject(c, "ValidationError")
           ELSE CallSetEntry(c, [dataKey |-> call[c].dataKey.str, data |-> data,
                                 revision |-> revision.revision])
    /\ UNCHANGED <<portalVars, lastGet, ops, call, signedEntry, skyfile, readAt, writeAt,
                   response, resolvedHns, writer>>

getOrCreateRegistryEntry(c) ==
    /\ pc[c] = "getOrCreateRegistryEntry"
    /\ Quiet
    /\ signedEntry[c] # Pending
    /\ skyfile[c] # Pending
    /\ LET revision == getNextRevisionFromEntry(signedEntry[c].entry)
           dataLink == trimUriPrefix(skyfile[c].skylink, URI_SKYNET_PREFIX)
           data == decodeSkylinkBase64(dataLink)
       IN  IF revision.threw THEN Reject(c, revision.error)
           ELSE IF Len(data) # RAW_SKYLINK_SIZE THEN Reject(c, "ValidationError")
           ELSE CallSetEntry(c, [dataKey |-> call[c].dataKey.str, data |-> data,
                                 revision |-> revision.revision])
    /\ UNCHANGED <<portalVars, lastGet, ops, call, signedEntry, skyfile, readAt, writeAt,
                   response, resolvedHns, writer>>

(***************************************************************************)
(* setEntryData up to its await of getNextRegistryEntry; deleteJSON,       *)
(* deleteEntryData and setDataLink go through it.                          *)
(***************************************************************************)
\* the options setEntryData works with
SetEntryDataOpts(customOptions) ==
    Spread3(DEFAULT_SET_ENTRY_DATA_OPTIONS, ClientOptions, customOptions)

\* the record of a call that goes through setEntryData: op and customOptions
\* are the operation that the caller started and the options it gave, data
\* and options are what setEntryData is given
SetCall(op, privateKey, dataKey, customOptions, data, options) ==
    [op |-> op, privateKey |-> privateKey, dataKey |-> dataKey,
     customOptions |-> customOptions, data |-> data, options |-> options]

SetEntryDataCall(c, theCall) ==
    LET opts == SetEntryDataOpts(theCall.options)
    IN  IF \/ ~validateHexString(theCall.privateKey)
           \/ ~validateString(theCall.dataKey)
           \/ ~validateUint8Array(theCall.data)
           \/ ~validateOptionalObject(theCall.options, DEFAULT_SET_ENTRY_DATA_OPTIONS)
           \/ ~validateEntryData(theCall.data.bytes,
                                 Truthy(Prop(opts, "allowDeletionEntryData")))
           \/ hexToUint8Array(theCall.privateKey.str).threw
        THEN Throw(c, theCall, "ValidationError")
        ELSE Suspend(c, theCall, "getNextRegistryEntry", <<"getEntry">>)

\* setEntryData that does not check the length of the data
setEntryData_anyLength(c, privateKey, dataKey, data, customOptions) ==
    /\ CanStart(c)
    /\ ops' = ops + 1
    /\ UNCHANGED <<portalVars, lastGet>>
    /\ LET theCall == SetCall("setEntryData", privateKey, dataKey, customOptions,
                              data, customOptions)
       IN  IF \/ ~validateHexString(privateKey)
              \/ ~validateString(dataKey)
              \/ ~validateUint8Array(data)
              \/ ~validateOptionalObject(customOptions, DEFAULT_SET_ENTRY_DATA_OPTIONS)
              \/ hexToUint8Array(privateKey.str).threw
           THEN Throw(c, theCall, "ValidationError")
           ELSE Suspend(c, theCall, "getNextRegistryEntry", <<"getEntry">>)

setEntryData(c, privateKey, dataKey, data, customOptions) ==
    /\ CanStart(c)
    /\ ops' = ops + 1
    /\ UNCHANGED <<portalVars, lastGet>>
    /\ SetEntryDataCall(c, SetCall("setEntryData", privateKey, dataKey, customOptions,
                                   data, customOptions))

deleteJSON(c, privateKey, dataKey, customOptions) ==
    /\ CanStart(c)
    /\ ops' = ops + 1
    /\ UNCHANGED <<portalVars, lastGet>>
    /\ LET opts == Spread3(DEFAULT_SET_ENTRY_DATA_OPTIONS, ClientOptions, customOptions)
       IN  SetEntryDataCall(c,
               SetCall("deleteJSON", privateKey, dataKey, customOptions,
                       Bytes(DELETION_ENTRY_DATA),
                       Spread3(opts, Obj(<<>>),
                               Obj("allowDeletionEntryData" :> Bool(TRUE)))))

\* deleteEntryData that leaves the flag as the caller gave it
deleteEntryData_callerFlag(c, privateKey, dataKey, customOptions) ==
    /\ CanStart(c)
    /\ ops' = ops + 1
    /\ UNCHANGED <<portalVars, lastGet>>
    /\ SetEntryDataCall(c,
           SetCall("deleteEntryData", privateKey, dataKey, customOptions,
                   Bytes(DELETION_ENTRY_DATA), customOptions))

deleteEntryData(c, privateKey, dataKey, customOptions) ==
    /\ CanStart(c)
    /\ ops' = ops + 1
    /\ UNCHANGED <<portalVars, lastGet>>
    /\ SetEntryDataCall(c,
           SetCall("deleteEntryData", privateKey, dataKey, customOptions,
                   Bytes(DELETION_ENTRY_DATA),
                   Spread3(customOptions, Obj(<<>>),
                           Obj("allowDeletionEntryData" :> Bool(TRUE)))))

setDataLink(c, privateKey, dataKey, dataLink, customOptions) ==
    /\ CanStart(c)
    /\ ops' = ops + 1
    /\ UNCHANGED <<portalVars, lastGet>>
    /\ LET parsedSkylink == validateSkylinkString(dataLink)
           theCall == [op |-> "setDataLink", privateKey |-> privateKey,
                       dataKey |-> dataKey, dataLink |-> dataLink,
                       customOptions |-> customOptions]
       IN  IF parsedSkylink = Null
           THEN Throw(c, theCall, "ValidationError")
           ELSE SetEntryDataCall(c,
                   [data |-> Bytes(decodeSkylinkBase64(parsedSkylink.str)),
                    options |-> customOptions] @@ theCall)

\* getNextRegistryEntry that reads the registry a second time
getNextRegistryEntry_rereads(c) ==
    /\ pc[c] = "getNextRegistryEntry"
    /\ Quiet
    /\ signedEntry' = [signedEntry EXCEPT ![c] = [entry |-> stored]]
    /\ readAt' = [readAt EXCEPT ![c] = accepted]
    /\ LET revision == getNextRevisionFromEntry(stored)
       IN  IF revision.threw THEN Reject(c, revision.error)
           ELSE /\ pc' = [pc EXCEPT ![c] = "setEntry"]
                /\ entry' = [entry EXCEPT ![c] =
                                 Entry(call[c].data.bytes, revision.revision)]
                /\ calls' = [calls EXCEPT ![c] = @ \o <<"getEntry", "setEntry">>]
                /\ UNCHANGED result
    /\ UNCHANGED <<portalVars, lastGet, ops, call, skyfile, writeAt, response, resolvedHns, writer>>

\* getNextRegistryEntry that does not wait for its registry read
getNextRegistryEntry_unread(c) ==
    /\ pc[c] = "getNextRegistryEntry"
    /\ Quiet
    /\ CallSetEntry(c, Entry(call[c].data.bytes, BigInt0))
    /\ UNCHANGED <<portalVars, lastGet, ops, call, signedEntry, skyfile, readAt, writeAt,
                   response, resolvedHns, writer>>

\* the registry read of getNextRegistryEntry is answered; setEntryData goes
\* on to its await of registry.setEntry
getNextRegistryEntry(c) ==
    /\ pc[c] = "getNextRegistryEntry"
    /\ Quiet
    /\ signedEntry' = [signedEntry EXCEPT ![c] = [entry |-> stored]]
    /\ readAt' = [readAt EXCEPT ![c] = accepted]
    /\ LET revision == getNextRevisionFromEntry(stored)
       IN  IF revision.threw THEN Reject(c, revision.error)
           ELSE CallSetEntry(c, Entry(call[c].data.bytes, revision.revision))
    /\ UNCHANGED <<portalVars, lastGet, ops, call, skyfile, writeAt, response, resolvedHns, writer>>

\* setJSON that returns the skylink of the upload without the sia:// prefix
SetReturnValue_bare(c) ==
    CASE call[c].op = "setJSON" ->
            [data |-> call[c].json,
             dataLink |-> Str(trimUriPrefix(skyfile[c].skylink, URI_SKYNET_PREFIX))]
      [] call[c].op = "setEntryData" -> [data |-> Bytes(entry[c].data)]
      [] OTHER -> Undefined

\* what the set operation returns once registry.setEntry has resolved
SetReturnValue(c) ==
    CASE call[c].op = "setJSON" ->
            [data |-> call[c].json,
             dataLink |-> Str(formatSkylink(formatSkylink(
                             trimUriPrefix(skyfile[c].skylink, URI_SKYNET_PREFIX))))]
      [] call[c].op = "setEntryData" -> [data |-> Bytes(entry[c].data)]
      [] OTHER -> Undefined

\* the portal's decision on a write
PortalAccepts(newEntry) ==
    \/ ~enforcesRevision
    \/ stored = Null
    \/ BigGT(newEntry.revision, stored.revision)

\* registry.setEntry reaches the portal and is answered; the operation returns
setEntry(c) ==
    /\ pc[c] = "setEntry"
    /\ Quiet
    /\ writeAt' = [writeAt EXCEPT ![c] = accepted]
    /\ pc' = [pc EXCEPT ![c] = "done"]
    /\ IF PortalAccepts(entry[c])
       THEN /\ stored' = entry[c]
            /\ accepted' = accepted + 1
            /\ lastWrite' = [call |-> call[c], prior |-> stored,
                             read |-> signedEntry[c].entry, readAt |-> readAt[c],
                             before |-> IF lastWrite = Null THEN -1
                                        ELSE lastWrite.readAt,
                             returned |-> SetReturnValue(c)]
            /\ result' = [result EXCEPT ![c] = Resolved(SetReturnValue(c))]
       ELSE /\ UNCHANGED <<stored, accepted, lastWrite>>
            /\ result' = [result EXCEPT ![c] = Rejected("PortalRejected")]
    /\ UNCHANGED <<enforcesRevision, thisCustomOptions, lastGet, ops, call, signedEntry,
                   skyfile, entry, calls, readAt, response, resolvedHns, writer>>

(***************************************************************************)
(* The read operations, up to the await in getSkyDBRegistryEntry.          *)
(***************************************************************************)
\* getEntryData that bumps the revision of the entry it is about to read
\* a read operation up to its await: model holds the options it recognizes
GetCall(c, op, publicKey, dataKey, customOptions, model) ==
    LET theCall == [op |-> op, publicKey |-> publicKey, dataKey |-> dataKey,
                    customOptions |-> customOptions]
    IN  IF \/ ~validatePublicKey(publicKey)
           \/ ~validateString(dataKey)
           \/ ~validateOptionalObject(customOptions, model)
        THEN Throw(c, theCall, "ValidationError")
        ELSE Suspend(c, theCall, "getSkyDBRegistryEntry", <<"getEntry">>)

getEntryData_touch(c, publicKey, dataKey, customOptions) ==
    /\ CanStart(c)
    /\ ops' = ops + 1
    /\ stored' = IF stored = Null \/ stored.revision = MAX_REVISION THEN stored
                 ELSE [stored EXCEPT !.revision = BigAdd(@, BigInt1)]
    /\ UNCHANGED <<enforcesRevision, thisCustomOptions, accepted, lastWrite, lastGet>>
    /\ GetCall(c, "getEntryData", publicKey, dataKey, customOptions,
               DEFAULT_GET_ENTRY_OPTIONS)

getEntryData(c, publicKey, dataKey, customOptions) ==
    /\ CanStart(c)
    /\ ops' = ops + 1
    /\ UNCHANGED <<portalVars, lastGet>>
    /\ GetCall(c, "getEntryData", publicKey, dataKey, customOptions,
               DEFAULT_GET_ENTRY_OPTIONS)

getJSON(c, publicKey, dataKey, customOptions) ==
    /\ CanStart(c)
    /\ ops' = ops + 1
    /\ UNCHANGED <<portalVars, lastGet>>
    /\ GetCall(c, "getJSON", publicKey, dataKey, customOptions,
               DEFAULT_GET_JSON_OPTIONS)

getRawBytes(c, publicKey, dataKey, customOptions) ==
    /\ CanStart(c)
    /\ ops' = ops + 1
    /\ UNCHANGED <<portalVars, lastGet>>
    /\ GetCall(c, "getRawBytes", publicKey, dataKey, customOptions,
               DEFAULT_GET_JSON_OPTIONS)

\* the options of getJSON and getRawBytes without those of the call
GetJSONOpts_defaults(customOptions) ==
    Spread3(DEFAULT_GET_JSON_OPTIONS, ClientOptions, Undefined)

\* the options getJSON and getRawBytes work with
GetJSONOpts(customOptions) ==
    Spread3(DEFAULT_GET_JSON_OPTIONS, ClientOptions, customOptions)

\* a read that takes a hint for the link of the entry
getSkyDBRegistryEntry_trustsHint(c) ==
    /\ pc[c] = "getSkyDBRegistryEntry"
    /\ Quiet
    /\ signedEntry' = [signedEntry EXCEPT ![c] = [entry |-> stored]]
    /\ readAt' = [readAt EXCEPT ![c] = accepted]
    /\ LET found == SkyDBEntry(stored)
           hint == Prop(GetJSONOpts(call[c].customOptions), "cachedDataLink")
       IN  IF call[c].op = "getEntryData"
           THEN Resolve(c, [data |-> IF found = Null THEN Null ELSE Bytes(found.data)])
           ELSE IF Truthy(hint)
           THEN Resolve(c, [data |-> Null, dataLink |-> hint])
           ELSE IF found = Null
           THEN Resolve(c, [data |-> Null, dataLink |-> Null])
           ELSE LET parsed == parseDataLink(found.data, call[c].op = "getJSON")
                IN  IF parsed.threw THEN Reject(c, parsed.error)
                    ELSE /\ pc' = [pc EXCEPT ![c] = "getFileContent"]
                         /\ calls' = [calls EXCEPT ![c] = Append(calls[c], "getFileContent")]
                         /\ UNCHANGED <<entry, result>>
    /\ UNCHANGED <<portalVars, lastGet, ops, call, skyfile, writeAt, response, resolvedHns, writer>>

\* the registry read of getSkyDBRegistryEntry is answered; the read operation
\* goes on to its return or to its await of getFileContent
getSkyDBRegistryEntry(c) ==
    /\ pc[c] = "getSkyDBRegistryEntry"
    /\ Quiet
    /\ signedEntry' = [signedEntry EXCEPT ![c] = [entry |-> stored]]
    /\ readAt' = [readAt EXCEPT ![c] = accepted]
    /\ LET found == SkyDBEntry(stored)
       IN  IF call[c].op = "getEntryData"
           THEN Resolve(c, [data |-> IF found = Null THEN Null ELSE Bytes(found.data)])
           ELSE IF found = Null
           THEN Resolve(c, [data |-> Null, dataLink |-> Null])
           ELSE LET parsed == parseDataLink(found.data, call[c].op = "getJSON")
                IN  IF parsed.threw THEN Reject(c, parsed.error)
                    ELSE IF checkCachedDataLink(parsed.rawDataLink,
                                                Prop(GetJSONOpts(call[c].customOptions),
                                                     "cachedDataLink"))
                    THEN Resolve(c, [data |-> Null, dataLink |-> Str(parsed.dataLink)])
                    ELSE /\ pc' = [pc EXCEPT ![c] = "getFileContent"]
                         /\ calls' = [calls EXCEPT ![c] = Append(calls[c], "getFileContent")]
                         /\ UNCHANGED <<entry, result>>
    /\ UNCHANGED <<portalVars, lastGet, ops, call, skyfile, writeAt, response, resolvedHns, writer>>

\* the download is answered; getJSON and getRawBytes return
getFileContent(c) ==
    /\ pc[c] = "getFileContent"
    /\ Quiet
    /\ LET dataLink == parseDataLink(signedEntry[c].entry.data,
                                     call[c].op = "getJSON").dataLink
           data == FileAt(dataLink)
           actualData == Prop(data, "_data")
       IN  IF data = Undefined THEN Reject(c, "DownloadFailed")
           ELSE IF call[c].op = "getRawBytes"
           THEN Resolve(c, [data |-> [kind |-> "Uint8Array", content |-> data],
                            dataLink |-> Str(dataLink)])
           ELSE IF typeof(data) # "object" \/ data = Null
           THEN Reject(c, "NotJSON")
           ELSE IF ~(Truthy(Prop(data, "_data")) /\ Truthy(Prop(data, "_v")))
           THEN Resolve(c, [data |-> data, dataLink |-> Str(dataLink)])
           ELSE IF typeof(actualData) # "object" \/ data = Null
           THEN Reject(c, "NotJSON")
           ELSE Resolve(c, [data |-> actualData, dataLink |-> Str(dataLink)])
    /\ UNCHANGED <<portalVars, lastGet, ops, call, signedEntry, skyfile, readAt, writeAt,
                   response, resolvedHns, writer>>

(***************************************************************************)
(* The downloads of download.js: the content and the metadata of a         *)
(* skylink, each up to the await of its request and from its answer on.    *)
(***************************************************************************)
\* the skylinks asked for: a data link and a resolver link
SkylinkInputs == {Str(FileLinks[1]), Str(EntryLink)}

\* the values of the skynet-skylink header and of the skynet-proof header,
\* Undefined for a header that is absent
SkylinkHeaders ==
    {Str(FileLinks[1]), Str(FileLinks[2]), Str(EntryLink), Str(formatSkylink(FileLinks[1]))}
ProofHeaders ==
    {Undefined, Str(<<>>), Str(<<"[", "]">>), Str(<<"[", "2", "]">>),
     Str(<<"[", "1", ",", "3", "]">>), Str(<<"[", "1", ",", "2", "]">>),
     Str(<<"[", "3", "]">>), Str(<<"n", "u", "l", "l">>), Str(<<"x">>)}

\* a successful answer of the portal with the two headers
Response(skylink, proof) ==
    [data |-> Str(<<"d">>),
     headers |-> Obj(("content-type" :> Str(<<"t">>)
                        @@ "skynet-portal-api" :> Str(<<"p">>)
                        @@ "skynet-skylink" :> skylink)
                     @@ (IF proof = Undefined THEN <<>>
                         ELSE "skynet-proof" :> proof))]

Responses ==
    {Response(skylink, proof) : skylink \in SkylinkHeaders, proof \in ProofHeaders}
        \cup {[data |-> Undefined, headers |-> Undefined]}

\* getFileContent(skylinkUrl) of download.js up to its await of
\* getFileContentRequest, which asks the portal
getFileContentOfSkylink(c, skylinkUrl) ==
    /\ CanStart(c)
    /\ ops' = ops + 1
    /\ UNCHANGED <<portalVars, lastGet>>
    /\ LET theCall == [op |-> "getFileContent", skylinkUrl |-> skylinkUrl]
       IN  IF validateSkylinkString(skylinkUrl) = Null
           THEN Throw(c, theCall, "ValidationError")
           ELSE Suspend(c, theCall, "getFileContentRequest", <<"getFileContentRequest">>)

\* the request is answered; getFileContent validates the answer and returns
getFileContentRequest(c, theResponse) ==
    /\ pc[c] = "getFileContentRequest"
    /\ Quiet
    /\ response' = [response EXCEPT ![c] = theResponse]
    /\ LET inputSkylink == parseSkylink(call[c].skylinkUrl.str)
           valid == validateGetFileContentResponse(theResponse, inputSkylink)
       IN  IF valid.threw THEN Reject(c, valid.error)
           ELSE Resolve(c, extractGetFileContentResponse(theResponse))
    /\ UNCHANGED <<portalVars, lastGet, ops, call, signedEntry, skyfile, readAt, writeAt,
                   resolvedHns, writer>>

\* getMetadata(skylinkUrl, customOptions) up to its await of executeRequest;
\* getSkylinkUrl before it asks nothing of the portal
getMetadata(c, skylinkUrl, customOptions) ==
    /\ CanStart(c)
    /\ ops' = ops + 1
    /\ UNCHANGED <<portalVars, lastGet>>
    /\ LET theCall == [op |-> "getMetadata", skylinkUrl |-> skylinkUrl,
                       customOptions |-> customOptions]
       IN  IF \/ ~validateOptionalObject(customOptions, DEFAULT_GET_METADATA_OPTIONS)
              \/ validateSkylinkString(skylinkUrl) = Null
           THEN Throw(c, theCall, "ValidationError")
           ELSE Suspend(c, theCall, "executeRequest", <<"executeRequest">>)

\* the request is answered; getMetadata validates the answer and returns
executeRequest(c, theResponse) ==
    /\ pc[c] = "executeRequest"
    /\ Quiet
    /\ response' = [response EXCEPT ![c] = theResponse]
    /\ LET inputSkylink == parseSkylink(call[c].skylinkUrl.str)
           valid == validateGetMetadataResponse(theResponse, inputSkylink)
       IN  IF valid.threw THEN Reject(c, valid.error)
           ELSE Resolve(c, [metadata |-> theResponse.data,
                            portalUrl |-> Prop(theResponse.headers, "skynet-portal-api"),
                            skylink |-> Str(formatSkylink(
                                Prop(theResponse.headers, "skynet-skylink").str))])
    /\ UNCHANGED <<portalVars, lastGet, ops, call, signedEntry, skyfile, readAt, writeAt,
                   resolvedHns, writer>>

(***************************************************************************)
(* The registry client of part_000: lookupRegistry and updateRegistry,     *)
(* each up to its await of executeRequest and from the answer on.  Their   *)
(* entries are addressed by user and file id; the entry of the db is not   *)
(* among them.                                                             *)
(***************************************************************************)
User == [publicKey |-> PublicKey]
FileID == [version |-> Num(2), applicationID |-> Str(<<"a">>), fileType |-> Num(1),
           filename |-> Str(<<"f">>)]

\* sign(privateKey, message) and verify(publicKey, message, signature) of the
\* crypto capability; the private key of User is PrivateKey
sign(privateKey, message) == Str(<<"s">> \o privateKey.str \o message)
verify(publicKey, message, signature) ==
    publicKey = PublicKey /\ signature = sign(PrivateKey, message)

\* parseInt(str, 10) of a text of decimal digits
RECURSIVE parseInt(_)
parseInt(str) ==
    IF str = <<>> THEN 0
    ELSE 10 * parseInt(SubSeq(str, 1, Len(str) - 1)) + HexValue(str[Len(str)])

\* the bytes signed for an entry of the client: its data and its revision
SignedMessage(data, revision) == data.str \o <<"#">> \o revision.str

\* the body of a registry read answered with status 200
RegistryData(data, revision, signature) ==
    Obj("Tweak" :> Str(<<"t">>) @@ "Data" :> data @@ "Revision" :> revision
          @@ "Signature" :> signature)

RegistryDataInputs ==
    {RegistryData(Str(<<"A", "B">>), Str(<<"1", "2">>),
                  sign(PrivateKey, SignedMessage(Str(<<"A", "B">>), Str(<<"1", "2">>)))),
     RegistryData(Str(<<"A", "B">>), Str(<<"7">>),
                  sign(PrivateKey, SignedMessage(Str(<<"A", "B">>), Str(<<"1", "2">>))))}

\* what executeRequest settles with: a response of a status from 200 to 299,
\* or the error axios throws for any other status and for a network error
Status(status, data) == [status |-> status, data |-> data]
RequestErrors == {"NotFound", "ServerError", "Conflict", "NetworkError"}
LookupOutcomes ==
    {Status(200, data) : data \in RegistryDataInputs}
        \cup {Status(204, Str(<<>>))}
        \cup {Failed(error) : error \in RequestErrors \ {"Conflict"}}
UpdateOutcomes ==
    {Status(204, Str(<<>>)), Status(200, Str(<<>>))}
        \cup {Failed(error) : error \in RequestErrors \ {"NotFound"}}

\* the entries updateRegistry is called with
SignedRegistryValues ==
    {[value |-> [tweak |-> Bytes(<<116>>), data |-> Str(<<"A", "B">>), revision |-> 13],
      signature |-> Str(<<"s">>)]}

\* the defaults of the registry client: its endpoint
defaultRegistryOptions ==
    Obj("endpointPath" :> Str(<<"/", "s", "k", "y", "n", "e", "t", "/",
                                "r", "e", "g", "i", "s", "t", "r", "y">>))

\* the options lookupRegistry and updateRegistry give to executeRequest:
\* { ...defaultRegistryOptions, ...customOptions, ...this.customOptions }
RegistryOpts(customOptions) ==
    Spread3(defaultRegistryOptions, customOptions, ClientOptions)

\* lookupRegistry(user, fileID, customOptions) up to its await of
\* executeRequest, which is called with opts
lookupRegistry(c, user, fileID, customOptions) ==
    /\ CanStart(c)
    /\ ops' = ops + 1
    /\ UNCHANGED <<portalVars, lastGet>>
    /\ Suspend(c, [op |-> "lookupRegistry", user |-> user, fileID |-> fileID,
                   customOptions |-> customOptions,
                   opts |-> RegistryOpts(customOptions)],
               "lookupRegistry", <<"executeRequest">>)

\* the request of lookupRegistry settles; lookupRegistry returns
lookupRegistryResponse(c, outcome) ==
    /\ pc[c] = "lookupRegistry"
    /\ Quiet
    /\ response' = [response EXCEPT ![c] = outcome]
    /\ IF outcome \in {Failed(error) : error \in RequestErrors}
       THEN Resolve(c, Null)
       ELSE IF outcome.status = 200
       THEN Resolve(c, [value |-> [tweak |-> Bytes(stringToUint8ArrayUtf8(
                                                 Prop(outcome.data, "Tweak").str)),
                                   data |-> Prop(outcome.data, "Data"),
                                   revision |-> parseInt(Prop(outcome.data, "Revision").str)],
                        signature |-> Prop(outcome.data, "Signature")])
       ELSE Reject(c, "UnexpectedStatus")
    /\ UNCHANGED <<portalVars, lastGet, ops, call, signedEntry, skyfile, readAt, writeAt,
                   resolvedHns, writer>>

\* updateRegistry(user, fileID, srv, customOptions) up to its await of
\* executeRequest, which is called with opts
updateRegistry(c, user, fileID, srv, customOptions) ==
    /\ CanStart(c)
    /\ ops' = ops + 1
    /\ UNCHANGED <<portalVars, lastGet>>
    /\ Suspend(c, [op |-> "updateRegistry", user |-> user, fileID |-> fileID, srv |-> srv,
                   customOptions |-> customOptions,
                   opts |-> RegistryOpts(customOptions)],
               "updateRegistry", <<"executeRequest">>)

\* the request of updateRegistry settles; updateRegistry returns
updateRegistryResponse(c, outcome) ==
    /\ pc[c] = "updateRegistry"
    /\ Quiet
    /\ response' = [response EXCEPT ![c] = outcome]
    /\ IF outcome \in {Failed(error) : error \in RequestErrors}
       THEN Resolve(c, Bool(FALSE))
       ELSE IF outcome.status = 204
       THEN Resolve(c, Bool(TRUE))
       ELSE Reject(c, "UnexpectedStatus")
    /\ UNCHANGED <<portalVars, lastGet, ops, call, signedEntry, skyfile, readAt, writeAt,
                   resolvedHns, writer>>

(***************************************************************************)
(* getFileContentHns of download.js: the content request and resolveHns    *)
(* are started together and awaited with Promise.all.  getHnsUrl before    *)
(* them asks nothing of the portal.                                        *)
(***************************************************************************)
HnsDomains == {Str(<<"d">>)}

\* getEntryLink(publickey, datakey): the resolver link of the entry
getEntryLink(publickey, datakey) == Str(EntryLink)

\* the bodies of the portal's answer to the request of resolveHns: a data
\* link, a resolver link, a registry entry, neither, and none
ResolveHnsData ==
    {Obj("skylink" :> Str(FileLinks[1])),
     Obj("skylink" :> Str(EntryLink)),
     Obj("registry" :> Obj("publickey" :> PublicKey @@ "datakey" :> Str(DataKey))),
     Obj(<<>>),
     Undefined}

\* what the two requests settle with
ResolveHnsOutcomes ==
    {[data |-> data] : data \in ResolveHnsData} \cup {Failed("NetworkError")}
ContentOutcomes == Responses \cup {Failed("NetworkError")}

\* validateResolveHnsResponse(response)
validateResolveHnsResponse(theResponse) ==
    LET data == theResponse.data
        registry == Prop(data, "registry")
    IN  IF ~Truthy(data) THEN Threw("ResolveHnsInvalid")
        ELSE IF Truthy(Prop(data, "skylink"))
        THEN IF validateSkylinkString(Prop(data, "skylink")) = Null
             THEN Threw("ResolveHnsInvalid") ELSE Ok
        ELSE IF Truthy(registry)
        THEN IF /\ validateObject(registry)
                /\ validateString(Prop(registry, "publickey"))
                /\ validateString(Prop(registry, "datakey"))
             THEN Ok ELSE Threw("ResolveHnsInvalid")
        ELSE Threw("ResolveHnsInvalid")

\* what resolveHns settles with when its request settles with outcome
resolveHns(outcome) ==
    IF outcome = Failed("NetworkError") THEN outcome
    ELSE IF validateResolveHnsResponse(outcome).threw
    THEN Failed(validateResolveHnsResponse(outcome).error)
    ELSE IF Truthy(Prop(outcome.data, "skylink"))
    THEN [data |-> outcome.data, skylink |-> Prop(outcome.data, "skylink")]
    ELSE [data |-> outcome.data,
          skylink |-> getEntryLink(Prop(Prop(outcome.data, "registry"), "publickey"),
                                   Prop(Prop(outcome.data, "registry"), "datakey"))]

\* getFileContentHns(domain, customOptions) up to its await of Promise.all
getFileContentHns(c, domain, customOptions) ==
    /\ CanStart(c)
    /\ ops' = ops + 1
    /\ UNCHANGED <<portalVars, lastGet>>
    /\ Suspend(c, [op |-> "getFileContentHns", domain |-> domain,
                   customOptions |-> customOptions],
               "getFileContentHns", <<"executeRequest", "resolveHns">>)

\* getFileContentHns after the Promise.all: both answers are in
HnsJoin(c, theResponse, inputSkylink) ==
    LET valid == validateGetFileContentResponse(theResponse, inputSkylink)
    IN  IF valid.threw THEN Reject(c, valid.error)
        ELSE Resolve(c, extractGetFileContentResponse(theResponse))

\* a content request whose answer is checked against its own skylink and
\* returned at once when resolveHns has not answered yet
executeRequestHns_first(c, outcome) ==
    /\ pc[c] = "getFileContentHns"
    /\ Quiet
    /\ response[c] = Undefined
    /\ response' = [response EXCEPT ![c] = outcome]
    /\ IF outcome = Failed("NetworkError") THEN Reject(c, outcome.error)
       ELSE IF resolvedHns[c] = Undefined
       THEN HnsJoin(c, outcome, Prop(outcome.headers, "skynet-skylink"))
       ELSE HnsJoin(c, outcome, resolvedHns[c].skylink)
    /\ UNCHANGED <<portalVars, lastGet, ops, call, signedEntry, skyfile, readAt, writeAt,
                   resolvedHns, writer>>

\* the content request of getFileContentHns settles: a failure rejects the
\* Promise.all; an answer is kept until resolveHns has answered
executeRequestHns(c, outcome) ==
    /\ pc[c] = "getFileContentHns"
    /\ Quiet
    /\ response[c] = Undefined
    /\ response' = [response EXCEPT ![c] = outcome]
    /\ IF outcome = Failed("NetworkError") THEN Reject(c, outcome.error)
       ELSE IF resolvedHns[c] = Undefined
       THEN UNCHANGED <<pc, result, entry, calls>>
       ELSE HnsJoin(c, outcome, resolvedHns[c].skylink)
    /\ UNCHANGED <<portalVars, lastGet, ops, call, signedEntry, skyfile, readAt, writeAt,
                   resolvedHns, writer>>

\* the request of resolveHns settles: resolveHns validates the answer and
\* returns the skylink; its failure rejects the Promise.all
resolveHnsAnswer(c, outcome) ==
    /\ pc[c] = "getFileContentHns"
    /\ Quiet
    /\ resolvedHns[c] = Undefined
    /\ resolvedHns' = [resolvedHns EXCEPT ![c] = resolveHns(outcome)]
    /\ IF resolveHns(outcome) \in {Failed("NetworkError"), Failed("ResolveHnsInvalid")}
       THEN Reject(c, resolveHns(outcome).error)
       ELSE IF response[c] = Undefined
       THEN UNCHANGED <<pc, result, entry, calls>>
       ELSE HnsJoin(c, response[c], resolveHns(outcome).skylink)
    /\ UNCHANGED <<portalVars, lastGet, ops, call, signedEntry, skyfile, readAt, writeAt,
                   response, writer>>

(***************************************************************************)
(* downloadFileToPath and downloadFileToPathRequest of node.ts.  The write *)
(* stream is created before the request; the response's stream is piped    *)
(* into it once the request is answered, and only then the promise the     *)
(* call awaits listens to the write stream's finish and error.  pipe ends  *)
(* the write stream when the response's stream ends; it does nothing when  *)
(* the response's stream errors, and nothing listens to that error.        *)
(***************************************************************************)
\* response.data of a request with responseType "stream"
Stream(state) == [kind |-> "stream", state |-> state]

\* the answers of the portal: a stream with headers, and no data
StreamResponses ==
    {[data |-> Stream("flowing"), headers |-> Response(Str(FileLinks[1]), Undefined).headers],
     [data |-> Undefined, headers |-> Undefined]}

\* getDownloadHeaders(response): the metadata that the headers carry
getDownloadHeaders(theResponse) ==
    [contentType |-> Prop(theResponse.headers, "content-type"),
     skylink |-> Prop(theResponse.headers, "skynet-skylink")]

\* the call creates its write stream and suspends at its await of
\* executeRequest
ToPathCall(c, theCall) ==
    /\ pc' = [pc EXCEPT ![c] = "downloadFileToPath"]
    /\ call' = [call EXCEPT ![c] = theCall]
    /\ calls' = [calls EXCEPT ![c] = <<"executeRequest">>]
    /\ result' = [result EXCEPT ![c] = Pending]
    /\ writer' = [writer EXCEPT ![c] = "open"]
    /\ UNCHANGED <<signedEntry, skyfile, entry, readAt, writeAt, response, resolvedHns>>

\* downloadFileToPath(skylinkUrl, path, customOptions) up to its await of
\* executeRequest; getSkylinkUrl throws for what is no skylink
downloadFileToPath(c, skylinkUrl, path, customOptions) ==
    /\ CanStart(c)
    /\ ops' = ops + 1
    /\ UNCHANGED <<portalVars, lastGet>>
    /\ LET theCall == [op |-> "downloadFileToPath", skylinkUrl |-> skylinkUrl,
                       path |-> path, customOptions |-> customOptions]
       IN  IF validateSkylinkString(skylinkUrl) = Null
           THEN Throw(c, theCall, "ValidationError")
           ELSE ToPathCall(c, theCall)

\* downloadFileToPathRequest(url, path, customOptions) up to its await of
\* executeRequest
downloadFileToPathRequest(c, url, path, customOptions) ==
    /\ CanStart(c)
    /\ ops' = ops + 1
    /\ UNCHANGED <<portalVars, lastGet>>
    /\ ToPathCall(c, [op |-> "downloadFileToPathRequest", url |-> url, path |-> path,
                      customOptions |-> customOptions])

\* the request fails: the call fails
executeRequestToPathError(c) ==
    /\ pc[c] = "downloadFileToPath"
    /\ Quiet
    /\ response' = [response EXCEPT ![c] = Failed("NetworkError")]
    /\ Reject(c, "NetworkError")
    /\ UNCHANGED <<portalVars, lastGet, ops, call, signedEntry, skyfile, readAt, writeAt,
                   resolvedHns, writer>>

\* the request is answered: without data the call fails, else the stream is
\* piped into the write stream and the call awaits finish or error
executeRequestToPath(c, theResponse) ==
    /\ pc[c] = "downloadFileToPath"
    /\ Quiet
    /\ response' = [response EXCEPT ![c] = theResponse]
    /\ IF typeof(theResponse.data) = "undefined"
       THEN Reject(c, "DataMissing")
       ELSE /\ pc' = [pc EXCEPT ![c] = "pipe"]
            /\ UNCHANGED <<result, entry, calls>>
    /\ UNCHANGED <<portalVars, lastGet, ops, call, signedEntry, skyfile, readAt, writeAt,
                   resolvedHns, writer>>

\* the response's stream ends: pipe ends the write stream
responseEnd(c) ==
    /\ pc[c] = "pipe"
    /\ Quiet
    /\ response[c].data = Stream("flowing")
    /\ response' = [response EXCEPT ![c].data = Stream("ended")]
    /\ writer' = [writer EXCEPT ![c] = IF writer[c] = "open" THEN "ending" ELSE writer[c]]
    /\ UNCHANGED <<portalVars, lastGet, ops, pc, call, signedEntry, skyfile, entry, result,
                   calls, readAt, writeAt, resolvedHns>>

\* the response's stream fails midway: the write stream is left as it is
responseError(c) ==
    /\ pc[c] = "pipe"
    /\ Quiet
    /\ response[c].data = Stream("flowing")
    /\ response' = [response EXCEPT ![c].data = Stream("errored")]
    /\ UNCHANGED <<portalVars, lastGet, ops, pc, call, signedEntry, skyfile, entry, result,
                   calls, readAt, writeAt, resolvedHns, writer>>

\* the write stream has written all and emits finish: the call returns
writerFinish(c) ==
    /\ pc[c] = "pipe"
    /\ Quiet
    /\ writer[c] = "ending"
    /\ writer' = [writer EXCEPT ![c] = "finished"]
    /\ Resolve(c, getDownloadHeaders(response[c]))
    /\ UNCHANGED <<portalVars, lastGet, ops, call, signedEntry, skyfile, readAt, writeAt,
                   response, resolvedHns>>

\* the write stream emits error: the call fails when it listens, which it
\* does from the pipe on; before that nothing listens
writerError(c) ==
    /\ pc[c] \in {"downloadFileToPath", "pipe"}
    /\ Quiet
    /\ writer[c] \in {"open", "ending"}
    /\ writer' = [writer EXCEPT ![c] = "errored"]
    /\ IF pc[c] = "pipe" THEN Reject(c, "WriteError")
       ELSE UNCHANGED <<pc, result, entry, calls>>
    /\ UNCHANGED <<portalVars, lastGet, ops, call, signedEntry, skyfile, readAt, writeAt,
                   response, resolvedHns>>

(***************************************************************************)
(* Specifications.  Spec lets the callers use the whole interface; the     *)
(* others let them use a part of it.                                       *)
(***************************************************************************)
Next ==
    \E c \in Clients :
        \/ \E json \in JsonInputs : setJSON(c, PrivateKey, Str(DataKey), json, Undefined)
        \/ uploadFileAnswer(c)
        \/ getEntryAnswer(c)
        \/ getOrCreateRegistryEntry(c)
        \/ \E data \in DataInputs, options \in AllowDeletionInputs :
              setEntryData(c, PrivateKey, Str(DataKey), data, options)
        \/ deleteJSON(c, PrivateKey, Str(DataKey), Undefined)
        \/ deleteEntryData(c, PrivateKey, Str(DataKey), Undefined)
        \/ \E dataLink \in DataLinkInputs :
              setDataLink(c, PrivateKey, Str(DataKey), dataLink, Undefined)
        \/ getNextRegistryEntry(c)
        \/ setEntry(c)
        \/ Return(c)
        \/ getEntryData(c, PublicKey, Str(DataKey), Undefined)
        \/ \E cached \in CachedDataLinkInputs :
              getJSON(c, PublicKey, Str(DataKey), CachedDataLink(cached))
        \/ \E cached \in CachedDataLinkInputs :
              getRawBytes(c, PublicKey, Str(DataKey), CachedDataLink(cached))
        \/ getSkyDBRegistryEntry(c)
        \/ getFileContent(c)

Spec == Init /\ [][Next]_vars

\* the callers only write
NextSet ==
    \E c \in Clients :
        \/ setJSON(c, PrivateKey, Str(DataKey), JsonA, Undefined)
        \/ uploadFileAnswer(c)
        \/ getEntryAnswer(c)
        \/ getOrCreateRegistryEntry(c)
        \/ setEntryData(c, PrivateKey, Str(DataKey), Bytes(<<1, 2, 3>>), Undefined)
        \/ deleteJSON(c, PrivateKey, Str(DataKey), Undefined)
        \/ deleteEntryData(c, PrivateKey, Str(DataKey), Undefined)
        \/ setDataLink(c, PrivateKey, Str(DataKey), Str(uploadFile(Files[4]).skylink),
                       Undefined)
        \/ getNextRegistryEntry(c)
        \/ setEntry(c)
        \/ Return(c)

SpecSet == Init /\ [][NextSet]_vars

\* the callers set, delete and get JSON
NextJSON ==
    \E c \in Clients :
        \/ \E json \in {JsonEnvelopeLike, JsonWithUndefined} :
              setJSON(c, PrivateKey, Str(DataKey), json, Undefined)
        \/ uploadFileAnswer(c)
        \/ getEntryAnswer(c)
        \/ getOrCreateRegistryEntry(c)
        \/ deleteJSON(c, PrivateKey, Str(DataKey), Undefined)
        \/ getNextRegistryEntry(c)
        \/ setEntry(c)
        \/ Return(c)
        \/ getJSON(c, PublicKey, Str(DataKey), Undefined)
        \/ getRawBytes(c, PublicKey, Str(DataKey), Undefined)
        \/ getSkyDBRegistryEntry(c)
        \/ getFileContent(c)

InitJSON == Init /\ stored \in {Null, Entry(RawSkylink(4), CarryRevision)}

SpecJSON == InitJSON /\ [][NextJSON]_vars

\* the callers set, delete and get entry data
NextEntryData ==
    \E c \in Clients :
        \/ \E data \in DataInputs, options \in AllowDeletionInputs :
              setEntryData(c, PrivateKey, Str(DataKey), data, options)
        \/ deleteEntryData(c, PrivateKey, Str(DataKey), Undefined)
        \/ \E dataLink \in DataLinkInputs :
              setDataLink(c, PrivateKey, Str(DataKey), dataLink, Undefined)
        \/ getNextRegistryEntry(c)
        \/ setEntry(c)
        \/ Return(c)
        \/ getEntryData(c, PublicKey, Str(DataKey), Undefined)
        \/ getSkyDBRegistryEntry(c)

SpecEntryData == Init /\ [][NextEntryData]_vars

\* the callers set entry data at and above the length limit
NextLength ==
    \E c \in Clients :
        \/ \E data \in EntryLengthInputs :
              setEntryData(c, PrivateKey, Str(DataKey), data, Undefined)
        \/ getNextRegistryEntry(c)
        \/ setEntry(c)
        \/ Return(c)

SpecLength == Init /\ [][NextLength]_vars

\* no operation is in flight
NoneInFlight == \A c \in Clients : pc[c] = "idle"

\* the callers use the whole interface, with well-formed and malformed
\* arguments, one call after the other
NextArgs ==
    \E c \in Clients :
        \/ \E privateKey \in {PrivateKey} \cup BadPrivateKeys,
              dataKey \in {Str(DataKey)} \cup BadDataKeys :
              /\ NoneInFlight
              /\ \/ \E json \in {JsonA} \cup BadJsons :
                       /\ OneBad(<<privateKey, dataKey, json>>)
                       /\ setJSON(c, privateKey, dataKey, json, Undefined)
                 \/ \E data \in {Bytes(<<1, 2, 3>>)} \cup BadData :
                       /\ OneBad(<<privateKey, dataKey, data>>)
                       /\ setEntryData(c, privateKey, dataKey, data, Undefined)
                 \/ \E dataLink \in {Str(uploadFile(Files[4]).skylink)} \cup BadDataLinks :
                       /\ OneBad(<<privateKey, dataKey, dataLink>>)
                       /\ setDataLink(c, privateKey, dataKey, dataLink, Undefined)
                 \/ /\ OneBad(<<privateKey, dataKey>>)
                    /\ deleteJSON(c, privateKey, dataKey, Undefined)
                 \/ /\ OneBad(<<privateKey, dataKey>>)
                    /\ deleteEntryData(c, privateKey, dataKey, Undefined)
        \/ \E publicKey \in {PublicKey} \cup BadPublicKeys,
              dataKey \in {Str(DataKey)} \cup BadDataKeys :
              /\ NoneInFlight
              /\ OneBad(<<publicKey, dataKey>>)
              /\ \/ getJSON(c, publicKey, dataKey, Undefined)
                 \/ getEntryData(c, publicKey, dataKey, Undefined)
                 \/ getRawBytes(c, publicKey, dataKey, Undefined)
        \/ uploadFileAnswer(c)
        \/ getEntryAnswer(c)
        \/ getOrCreateRegistryEntry(c)
        \/ getNextRegistryEntry(c)
        \/ setEntry(c)
        \/ getSkyDBRegistryEntry(c)
        \/ getFileContent(c)
        \/ Return(c)

InitArgs == Init /\ enforcesRevision /\ stored = Null

SpecArgs == InitArgs /\ [][NextArgs]_vars

\* the callers use the whole interface with options, one call after the other
NextOptions ==
    \E c \in Clients :
        \/ \E customOptions \in OptionInputs :
              /\ NoneInFlight
              /\ \/ setJSON(c, PrivateKey, Str(DataKey), JsonA, customOptions)
                 \/ setEntryData(c, PrivateKey, Str(DataKey), Bytes(<<1, 2, 3>>),
                                 customOptions)
                 \/ setDataLink(c, PrivateKey, Str(DataKey),
                                Str(uploadFile(Files[4]).skylink), customOptions)
                 \/ deleteJSON(c, PrivateKey, Str(DataKey), customOptions)
                 \/ deleteEntryData(c, PrivateKey, Str(DataKey), customOptions)
                 \/ getJSON(c, PublicKey, Str(DataKey), customOptions)
                 \/ getEntryData(c, PublicKey, Str(DataKey), customOptions)
                 \/ getRawBytes(c, PublicKey, Str(DataKey), customOptions)
        \/ uploadFileAnswer(c)
        \/ getEntryAnswer(c)
        \/ getOrCreateRegistryEntry(c)
        \/ getNextRegistryEntry(c)
        \/ setEntry(c)
        \/ getSkyDBRegistryEntry(c)
        \/ getFileContent(c)
        \/ Return(c)

SpecOptions == InitArgs /\ [][NextOptions]_vars

\* the callers only write, and uploads and registry reads may fail
NextFail ==
    \E c \in Clients :
        \/ setJSON(c, PrivateKey, Str(DataKey), JsonA, Undefined)
        \/ uploadFileAnswer(c)
        \/ uploadFileError(c)
        \/ getEntryAnswer(c)
        \/ \E error \in GetEntryErrors : getEntryError(c, error)
        \/ getOrCreateRegistryEntry(c)
        \/ setEntryData(c, PrivateKey, Str(DataKey), Bytes(<<1, 2, 3>>), Undefined)
        \/ deleteJSON(c, PrivateKey, Str(DataKey), Undefined)
        \/ deleteEntryData(c, PrivateKey, Str(DataKey), Undefined)
        \/ setDataLink(c, PrivateKey, Str(DataKey), Str(uploadFile(Files[4]).skylink),
                       Undefined)
        \/ getNextRegistryEntry(c)
        \/ setEntry(c)
        \/ Return(c)

SpecFail == InitArgs /\ [][NextFail]_vars

\* the callers download content and metadata
NextDownload ==
    \E c \in Clients :
        \/ \E skylinkUrl \in SkylinkInputs : getFileContentOfSkylink(c, skylinkUrl)
        \/ \E theResponse \in Responses : getFileContentRequest(c, theResponse)
        \/ \E skylinkUrl \in SkylinkInputs : getMetadata(c, skylinkUrl, Undefined)
        \/ \E theResponse \in Responses : executeRequest(c, theResponse)
        \/ Return(c)

SpecDownload == InitArgs /\ [][NextDownload]_vars

\* the callers read and write entries through the registry client of
\* part_000, and read the entry of the db
NextRegistry ==
    \E c \in Clients :
        \/ lookupRegistry(c, User, FileID, Obj(<<>>))
        \/ \E outcome \in LookupOutcomes : lookupRegistryResponse(c, outcome)
        \/ \E srv \in SignedRegistryValues : updateRegistry(c, User, FileID, srv, Obj(<<>>))
        \/ \E outcome \in UpdateOutcomes : updateRegistryResponse(c, outcome)
        \/ getEntryData(c, PublicKey, Str(DataKey), Undefined)
        \/ getJSON(c, PublicKey, Str(DataKey), Undefined)
        \/ getRawBytes(c, PublicKey, Str(DataKey), Undefined)
        \/ getSkyDBRegistryEntry(c)
        \/ \E error \in GetEntryErrors : getEntryError(c, error)
        \/ Return(c)

SpecRegistry == InitArgs /\ [][NextRegistry]_vars

\* the entries the reads find: none, the deletion sentinel, the raw skylink of
\* every file, the link of a file as base64 text, and data of other lengths
ReadEntries ==
    {Null, Entry(EMPTY_SKYLINK, BigInt0), Entry(<<1, 2, 3>>, BigInt0),
     Entry([k \in 1..(RAW_SKYLINK_SIZE + 1) |-> 0], BigInt0)}
        \cup {Entry(RawSkylink(i), BigInt0) : i \in DOMAIN Files}
        \cup {Entry(stringToUint8ArrayUtf8(FileLinks[i]), BigInt0) : i \in {1, 5}}

\* the hints of the callers: none, the link of file 1 and the link of file 4
HintInputs ==
    {Undefined, CachedDataLink(Str(FileLinks[1])),
     CachedDataLink(Str(formatSkylink(FileLinks[4])))}

\* the callers read the entry as JSON and as raw bytes, one call after the
\* other: no call changes the registry or the store
NextRead ==
    \E c \in Clients :
        \/ \E customOptions \in HintInputs :
              NoneInFlight /\ getJSON(c, PublicKey, Str(DataKey), customOptions)
        \/ \E customOptions \in HintInputs :
              NoneInFlight /\ getRawBytes(c, PublicKey, Str(DataKey), customOptions)
        \/ getSkyDBRegistryEntry(c)
        \/ getFileContent(c)
        \/ Return(c)

InitRead == InitWith(ReadEntries) /\ enforcesRevision

SpecRead == InitRead /\ [][NextRead]_vars

\* the flag as the callers give it: not at all, true, and false
FlagInputs ==
    {Undefined, Obj("allowDeletionEntryData" :> Bool(TRUE)),
     Obj("allowDeletionEntryData" :> Bool(FALSE))}

\* the callers set entry data, the deletion sentinel included, set the empty
\* skylink as data link, and delete, one call after the other
NextDeletion ==
    \E c \in Clients :
        \/ \E data \in DataInputs, customOptions \in FlagInputs :
              NoneInFlight /\ setEntryData(c, PrivateKey, Str(DataKey), data, customOptions)
        \/ \E customOptions \in FlagInputs :
              NoneInFlight /\ setDataLink(c, PrivateKey, Str(DataKey),
                                          Str(toBase64(EMPTY_SKYLINK)), customOptions)
        \/ \E customOptions \in FlagInputs :
              NoneInFlight /\ deleteEntryData(c, PrivateKey, Str(DataKey), customOptions)
        \/ \E customOptions \in FlagInputs :
              NoneInFlight /\ deleteJSON(c, PrivateKey, Str(DataKey), customOptions)
        \/ getNextRegistryEntry(c)
        \/ setEntry(c)
        \/ Return(c)

SpecDeletion == InitArgs /\ [][NextDeletion]_vars

\* the options a client is built with: none, and one value for a key of
\* each of the operations
ClientOptionInputs ==
    {Obj(<<>>),
     Obj("cachedDataLink" :> Str(FileLinks[1]) @@ "endpointPath" :> Str(<<"/", "c">>)
           @@ "allowDeletionEntryData" :> Bool(TRUE))}

\* the options of a call of the registry client
EndpointInputs == {Obj(<<>>), Obj("endpointPath" :> Str(<<"/", "p">>))}

\* the callers read, set entry data and use the registry client, with
\* options of their own, on a client built with options, one call after the
\* other
NextPrecedence ==
    \E c \in Clients :
        \/ \E customOptions \in HintInputs :
              NoneInFlight /\ getJSON(c, PublicKey, Str(DataKey), customOptions)
        \/ \E customOptions \in HintInputs :
              NoneInFlight /\ getRawBytes(c, PublicKey, Str(DataKey), customOptions)
        \/ getSkyDBRegistryEntry(c)
        \/ getFileContent(c)
        \/ \E data \in DataInputs, customOptions \in FlagInputs :
              NoneInFlight /\ setEntryData(c, PrivateKey, Str(DataKey), data, customOptions)
        \/ getNextRegistryEntry(c)
        \/ setEntry(c)
        \/ \E customOptions \in EndpointInputs :
              NoneInFlight /\ lookupRegistry(c, User, FileID, customOptions)
        \/ \E outcome \in LookupOutcomes : lookupRegistryResponse(c, outcome)
        \/ \E srv \in SignedRegistryValues, customOptions \in EndpointInputs :
              NoneInFlight /\ updateRegistry(c, User, FileID, srv, customOptions)
        \/ \E outcome \in UpdateOutcomes : updateRegistryResponse(c, outcome)
        \/ Return(c)

InitPrecedence ==
    /\ InitClient({Null, Entry(RawSkylink(1), BigInt0)}, ClientOptionInputs)
    /\ enforcesRevision

SpecPrecedence == InitPrecedence /\ [][NextPrecedence]_vars

\* the callers get the content of a Handshake domain, one call after the
\* other; the two requests of a call are answered in either order
NextHns ==
    \E c \in Clients :
        \/ \E domain \in HnsDomains :
              NoneInFlight /\ getFileContentHns(c, domain, Undefined)
        \/ \E outcome \in ContentOutcomes : executeRequestHns(c, outcome)
        \/ \E outcome \in ResolveHnsOutcomes : resolveHnsAnswer(c, outcome)
        \/ Return(c)

SpecHns == InitArgs /\ [][NextHns]_vars

\* the callers download to a file
NextToPath ==
    \E c \in Clients :
        \/ \E skylinkUrl \in {Str(FileLinks[1]), Str(<<"x">>)} :
              downloadFileToPath(c, skylinkUrl, Str(<<"f">>), Undefined)
        \/ downloadFileToPathRequest(c, Str(<<"u">>), Str(<<"f">>), Undefined)
        \/ executeRequestToPathError(c)
        \/ \E theResponse \in StreamResponses : executeRequestToPath(c, theResponse)
        \/ responseEnd(c)
        \/ responseError(c)
        \/ writerFinish(c)
        \/ writerError(c)
        \/ Return(c)

SpecToPath == InitArgs /\ [][NextToPath]_vars

\* every request settles, every stream that flows ends or fails, every write
\* stream that was ended emits finish or error, and every caller takes the
\* outcome of its call
FairToPath ==
    \A c \in Clients :
        /\ WF_vars(executeRequestToPathError(c)
                     \/ \E theResponse \in StreamResponses : executeRequestToPath(c, theResponse))
        /\ WF_vars(responseEnd(c) \/ responseError(c))
        /\ WF_vars(writerFinish(c) \/ (writer[c] = "ending" /\ writerError(c)))
        /\ WF_vars(Return(c))

FairSpecToPath == SpecToPath /\ FairToPath

\* a header of a response, none when the value is Undefined
Header(name, value) == IF value = Undefined THEN <<>> ELSE name :> value

\* answers of the portal with and without data and each of the headers, and
\* with headers that are no strings or no skylinks
HeaderResponses ==
    {[data |-> data,
      headers |-> Obj(Header("content-type", contentType)
                        @@ Header("skynet-portal-api", portalUrl)
                        @@ Header("skynet-skylink", skylink))] :
        data \in {Str(<<"d">>), Str(<<>>), Num(0), Undefined},
        contentType \in {Str(<<"t">>), Num(1), Undefined},
        portalUrl \in {Str(<<"p">>), Num(1), Undefined},
        skylink \in {Str(FileLinks[1]), Str(<<"x">>), Num(1), Undefined}}
        \cup {[data |-> Str(<<"d">>), headers |-> Undefined]}

\* the callers get the content of a data link, one call after the other
NextContent ==
    \E c \in Clients :
        \/ NoneInFlight /\ getFileContentOfSkylink(c, Str(FileLinks[1]))
        \/ \E theResponse \in HeaderResponses : getFileContentRequest(c, theResponse)
        \/ Return(c)

SpecContent == InitArgs /\ [][NextContent]_vars

(***************************************************************************)
(* The loops of trimPrefix and trimSuffix, one evaluation of the loop       *)
(* condition and one pass through the body at a time.  str and limit are    *)
(* the parameters the loop assigns to; args keeps the arguments, and        *)
(* trimmed counts the passes up to MaxTrimmed.                              *)
(***************************************************************************)
MaxTrimmed == 4

TrimChars == {"/", "a"}

TrimStrings ==
    {<<>>} \cup [1..1 -> TrimChars] \cup [1..2 -> TrimChars] \cup [1..3 -> TrimChars]

TrimAffixes == {<<>>, <<"/">>, <<"a">>, <<"/", "/">>}

TrimLimits == {Undefined, Num(-1), Num(0), Num(1), Num(2)}

\* the call of a trim function enters its loop
TrimCall(c, theCall) ==
    /\ CanStart(c)
    /\ ops' = ops + 1
    /\ pc' = [pc EXCEPT ![c] = "while"]
    /\ call' = [call EXCEPT ![c] = theCall]
    /\ result' = [result EXCEPT ![c] = Pending]
    /\ UNCHANGED <<portalVars, lastGet, signedEntry, skyfile, entry, calls, readAt, writeAt,
                   response, resolvedHns, writer>>

\* trimPrefix(str, prefix, limit) is called
trimPrefixCall(c, str, prefix, limit) ==
    TrimCall(c, [op |-> "trimPrefix",
                 args |-> [str |-> str, prefix |-> prefix, limit |-> limit],
                 str |-> str, prefix |-> prefix, limit |-> limit, trimmed |-> 0])

\* trimSuffix(str, suffix, limit) is called
trimSuffixCall(c, str, suffix, limit) ==
    TrimCall(c, [op |-> "trimSuffix",
                 args |-> [str |-> str, suffix |-> suffix, limit |-> limit],
                 str |-> str, suffix |-> suffix, limit |-> limit, trimmed |-> 0])

\* the loop is left and str is returned, or the body assigns newStr to str
\* and counts limit down
TrimWhile(c, goesOn, newStr) ==
    /\ Quiet
    /\ LET limit == call[c].limit
       IN  IF ~goesOn \/ (limit # Undefined /\ limit.num <= 0)
           THEN Resolve(c, Str(call[c].str)) /\ UNCHANGED call
           ELSE /\ call' = [call EXCEPT
                              ![c].str = newStr,
                              ![c].limit = IF Truthy(limit) THEN Num(limit.num - 1)
                                           ELSE limit,
                              ![c].trimmed = IF @ < MaxTrimmed THEN @ + 1 ELSE @]
                /\ UNCHANGED <<pc, result, entry, calls>>
    /\ UNCHANGED <<portalVars, lastGet, ops, signedEntry, skyfile, readAt, writeAt,
                   response, resolvedHns, writer>>

\* while (str.startsWith(prefix)) { ... } return str
trimPrefixWhile(c) ==
    /\ pc[c] = "while"
    /\ call[c].op = "trimPrefix"
    /\ TrimWhile(c, startsWith(call[c].str, call[c].prefix),
                 slice(call[c].str, Len(call[c].prefix)))

\* while (str.endsWith(suffix)) { ... } return str
trimSuffixWhile(c) ==
    /\ pc[c] = "while"
    /\ call[c].op = "trimSuffix"
    /\ TrimWhile(c, endsWith(call[c].str, call[c].suffix),
                 SubSeq(call[c].str, 1, Len(call[c].str) - Len(call[c].suffix)))

\* the callers trim strings, one call after the other
NextTrim ==
    \E c \in Clients :
        \/ \E str \in TrimStrings, prefix \in TrimAffixes, limit \in TrimLimits :
              NoneInFlight /\ trimPrefixCall(c, str, prefix, limit)
        \/ \E str \in TrimStrings, suffix \in TrimAffixes, limit \in TrimLimits :
              NoneInFlight /\ trimSuffixCall(c, str, suffix, limit)
        \/ trimPrefixWhile(c)
        \/ trimSuffixWhile(c)
        \/ Return(c)

SpecTrim == InitArgs /\ [][NextTrim]_vars

\* a loop that runs goes on running, and every caller takes the outcome of
\* its call
FairTrim ==
    \A c \in Clients :
        /\ WF_vars(trimPrefixWhile(c))
        /\ WF_vars(trimSuffixWhile(c))
        /\ WF_vars(Return(c))

FairSpecTrim == SpecTrim /\ FairTrim

(***************************************************************************)
(* The conversions between byte arrays and hex strings, called with byte    *)
(* arrays and with strings of hex digits in both cases and of another       *)
(* character.                                                               *)
(***************************************************************************)
MaxHexLen == 3

MaxByteLen == 2

HexInputChars == {"0", "a", "c", "F", "g"}

HexInputs ==
    {<<>>} \cup UNION {[1..n -> HexInputChars] : n \in 1..MaxHexLen}

ByteInputs ==
    {<<>>} \cup UNION {[1..n -> {0, 9, 10, 15, 16, 171, 255}] : n \in 1..MaxByteLen}

\* a function that awaits nothing returns value
ReturnAtOnce(c, theCall, value) ==
    /\ pc' = [pc EXCEPT ![c] = "done"]
    /\ call' = [call EXCEPT ![c] = theCall]
    /\ result' = [result EXCEPT ![c] = Resolved(value)]
    /\ UNCHANGED <<signedEntry, skyfile, entry, calls, readAt, writeAt, response,
                   resolvedHns, writer>>

\* hexToUint8Array(str) is called and returns or throws
hexToUint8ArrayCall(c, str) ==
    /\ CanStart(c)
    /\ ops' = ops + 1
    /\ UNCHANGED <<portalVars, lastGet>>
    /\ LET theCall == [op |-> "hexToUint8Array", str |-> str]
           converted == hexToUint8Array(str.str)
       IN  IF converted.threw THEN Throw(c, theCall, converted.error)
           ELSE ReturnAtOnce(c, theCall, Bytes(converted.bytes))

\* toHexString(byteArray) is called and returns
toHexStringCall(c, byteArray) ==
    /\ CanStart(c)
    /\ ops' = ops + 1
    /\ UNCHANGED <<portalVars, lastGet>>
    /\ ReturnAtOnce(c, [op |-> "toHexString", byteArray |-> byteArray],
                    Str(toHexString(byteArray.bytes)))

\* the callers convert strings and byte arrays, one call after the other
NextHex ==
    \E c \in Clients :
        \/ \E str \in HexInputs : NoneInFlight /\ hexToUint8ArrayCall(c, Str(str))
        \/ \E byteArray \in ByteInputs : NoneInFlight /\ toHexStringCall(c, Bytes(byteArray))
        \/ Return(c)

SpecHex == InitArgs /\ [][NextHex]_vars

\* values given as customOptions: absent, falsy and truthy values that are
\* no objects, and objects with no key, a recognized key and an unknown key
OptionalObjectInputs ==
    {Undefined, Null, Num(0), Str(<<>>), Bool(FALSE), Num(1), Str(<<"x">>), Bool(TRUE),
     Obj(<<>>), Obj("cachedDataLink" :> Str(FileLinks[1])), Obj("unknownOption" :> Num(1))}

\* the callers call getJSON with any value as options, one call after the
\* other
NextOptional ==
    \E c \in Clients :
        \/ \E customOptions \in OptionalObjectInputs :
              NoneInFlight /\ getJSON(c, PublicKey, Str(DataKey), customOptions)
        \/ getSkyDBRegistryEntry(c)
        \/ Return(c)

SpecOptional == InitArgs /\ [][NextOptional]_vars

TypeOK ==
    /\ enforcesRevision \in BOOLEAN
    /\ accepted \in 0..MaxOps
    /\ ops \in 0..MaxOps
    /\ \A c \in Clients :
        pc[c] \in {"idle", "done", "getOrCreateRegistryEntry", "getNextRegistryEntry",
                   "setEntry", "getSkyDBRegistryEntry", "getFileContent",
                   "getFileContentRequest", "executeRequest", "lookupRegistry",
                   "updateRegistry", "getFileContentHns", "downloadFileToPath", "pipe",
                   "while"}

(***************************************************************************)
(* Properties.                                                             *)
(***************************************************************************)
SetOps == {"setJSON", "setEntryData", "setDataLink", "deleteJSON", "deleteEntryData"}

\* the caller's operation is a set or delete whose registry read was answered
HasRead(c) ==
    /\ call[c] # Undefined
    /\ call[c].op \in SetOps
    /\ signedEntry[c] \notin {Undefined, Pending}

\* the caller's operation has called registry.setEntry
Sent(c) == \E i \in DOMAIN calls[c] : calls[c][i] = "setEntry"

\* the caller's set operation has settled after its write reached the portal
Wrote(c) == Settled(c) /\ HasRead(c) /\ Sent(c)

\* s = r + 1, limb by limb
IsSuccessor(r, s) ==
    \E i \in LimbIdx :
        /\ s[i] = r[i] + 1
        /\ \A j \in LimbIdx : j > i => r[j] = LimbMax /\ s[j] = 0
        /\ \A j \in LimbIdx : j < i => s[j] = r[j]

\* revision is the one that follows the entry prior (0 when there is none)
Follows(prior, revision) ==
    IF prior = Null THEN revision = BigInt0 ELSE IsSuccessor(prior.revision, revision)

\* exactly one write was accepted between the registry read of c's operation
\* and the arrival of its own write, and the operation of that write had read
\* when c's did: the two read the same entry, and c's write came second
CameSecond(c, readAtOfFirst) ==
    /\ Wrote(c)
    /\ writeAt[c] = readAt[c] + 1
    /\ readAtOfFirst = readAt[c]

\* C1: on a portal that accepts only strictly greater revisions, a set
\* operation attempts the revision next to the one it read; its write succeeds
\* when no write was accepted since its read and is rejected otherwise.  Of
\* two operations that read the same entry both attempt the same revision,
\* the first to reach the portal is the accepted one and the second fails.
C1_SecondWriterRejected ==
    enforcesRevision =>
        \A c \in Clients :
            /\ Wrote(c) =>
                /\ Follows(signedEntry[c].entry, entry[c].revision)
                /\ writeAt[c] = readAt[c] => result[c].status = "resolved"
                /\ writeAt[c] > readAt[c] => result[c] = Rejected("PortalRejected")
            /\ (lastWrite # Null /\ CameSecond(c, lastWrite.readAt)) =>
                /\ lastWrite.read = signedEntry[c].entry
                /\ stored.revision = entry[c].revision
                /\ result[c] = Rejected("PortalRejected")

C1_Witness ==
    /\ enforcesRevision
    /\ lastWrite # Null
    /\ \E c \in Clients :
        /\ CameSecond(c, lastWrite.readAt)
        /\ signedEntry[c].entry # Null
        /\ call[c].op = "setJSON"
        /\ lastWrite.call.op = "setEntryData"
        /\ result[c] = Rejected("PortalRejected")

\* C2: on a portal that does not check revisions, every write that reaches
\* the portal is accepted and its operation resolves; of two set operations
\* that read the same entry both attempt the next revision, and the entry of
\* the second write replaces the entry of the first.
C2_LostUpdate ==
    ~enforcesRevision =>
        \A c \in Clients :
            /\ Wrote(c) =>
                /\ Follows(signedEntry[c].entry, entry[c].revision)
                /\ result[c].status = "resolved"
                /\ accepted = writeAt[c] + 1
                /\ stored = entry[c]
            /\ (lastWrite # Null /\ CameSecond(c, lastWrite.before)) =>
                /\ lastWrite.prior # Null
                /\ lastWrite.prior.revision = entry[c].revision
                /\ lastWrite.read # lastWrite.prior

C2_Witness ==
    /\ ~enforcesRevision
    /\ lastWrite # Null
    /\ \E c \in Clients :
        /\ CameSecond(c, lastWrite.before)
        /\ result[c].status = "resolved"
        /\ lastWrite.prior.data # entry[c].data
        /\ stored = entry[c]

\* C3 as claimed: the revision of every accepted write is the revision of
\* the entry it replaced plus one, or 0 if there was none.
C3_Claimed ==
    lastWrite # Null => Follows(lastWrite.prior, stored.revision)

\* C3: the revision of every accepted write is the revision of the entry its
\* operation read plus one (0 if it read none); that is the revision of the
\* replaced entry plus one when the portal accepts only strictly greater
\* revisions or the entry read is the entry replaced.
C3_NextOfEntryRead ==
    lastWrite # Null =>
        /\ Follows(lastWrite.read, stored.revision)
        /\ (enforcesRevision \/ lastWrite.read = lastWrite.prior)
               => Follows(lastWrite.prior, stored.revision)

C3_Witness ==
    /\ lastWrite # Null
    /\ lastWrite.prior # Null
    /\ lastWrite.read = lastWrite.prior
    /\ lastWrite.call.op = "setDataLink"

\* the stored revision does not go down in this step
NonDecreasing ==
    stored # Null => stored' # Null /\ ~BigGT(stored.revision, stored'.revision)

\* C4 as claimed: the stored revision never goes down.
C4_Claimed == [][NonDecreasing]_vars

\* C4: the stored revision never goes down in a write to a portal that
\* accepts only strictly greater revisions, nor in a write that replaces the
\* entry its operation read (a delete followed by a set included).
C4_NonDecreasing ==
    [][(stored' # stored /\ (enforcesRevision \/ lastWrite'.read = lastWrite'.prior))
          => NonDecreasing]_vars

C4_Witness ==
    /\ ~enforcesRevision
    /\ lastWrite # Null
    /\ lastWrite.prior # Null
    /\ lastWrite.read = lastWrite.prior
    /\ areEqualUint8Arrays(lastWrite.prior.data, DELETION_ENTRY_DATA)
    /\ ~areEqualUint8Arrays(stored.data, DELETION_ENTRY_DATA)
    /\ BigGT(stored.revision, lastWrite.prior.revision)

\* C5: the revision computed from a registry read is 0 when no entry was
\* found and r + 1 when the entry found has a revision r below MAX_REVISION.
C5_NextRevision ==
    \A c \in Clients :
        (HasRead(c) /\ pc[c] # "getOrCreateRegistryEntry"
         /\ (signedEntry[c].entry = Null
             \/ BigGT(MAX_REVISION, signedEntry[c].entry.revision)))
            => /\ Sent(c)
               /\ Follows(signedEntry[c].entry, entry[c].revision)

C5_Witness ==
    \E c \in Clients :
        /\ HasRead(c)
        /\ Sent(c)
        /\ signedEntry[c].entry # Null
        /\ signedEntry[c].entry.revision = CarryRevision
        /\ entry[c].revision = <<0, 0, 0, 1, 0>>

\* C6: a set or delete operation that reads an entry at MAX_REVISION fails
\* with the overflow error and never calls registry.setEntry; no operation
\* that read an entry writes revision 0.
C6_KeyExhausted ==
    \A c \in Clients :
        (HasRead(c) /\ pc[c] # "getOrCreateRegistryEntry" /\ signedEntry[c].entry # Null)
            => /\ signedEntry[c].entry.revision = MAX_REVISION
                     => /\ ~Sent(c)
                        /\ Settled(c)
                        /\ result[c] = Rejected("RevisionOverflow")
               /\ Sent(c) => entry[c].revision # BigInt0

C6_Witness ==
    \E c \in Clients :
        /\ HasRead(c)
        /\ Settled(c)
        /\ call[c].op = "setJSON"
        /\ signedEntry[c].entry # Null
        /\ signedEntry[c].entry.revision = MAX_REVISION
        /\ lastWrite # Null
        /\ stored.revision = MAX_REVISION

\* the caller's operation is op and it has settled
SettledOp(c, op) == Settled(c) /\ call[c].op = op

\* the registry read of the caller's operation saw the entry of the last
\* accepted write, and that write was made by a call of op
ReadsWriteOf(c, op) ==
    /\ lastWrite # Null
    /\ lastWrite.call.op = op
    /\ signedEntry[c] \notin {Undefined, Pending}
    /\ readAt[c] = accepted

\* C7: a getJSON without a cached link that reads the entry written by a
\* resolved setJSON of a JSON object j returns data equal to j.
C7_RoundTrip ==
    \A r \in Clients :
        (/\ SettledOp(r, "getJSON")
         /\ call[r].customOptions = Undefined
         /\ ReadsWriteOf(r, "setJSON")
         /\ IsJSON(lastWrite.call.json))
            => /\ result[r].status = "resolved"
               /\ result[r].value.data = lastWrite.call.json

C7_Witness ==
    \E r \in Clients :
        /\ SettledOp(r, "getJSON")
        /\ call[r].customOptions = Undefined
        /\ ReadsWriteOf(r, "setJSON")
        /\ lastWrite.call.json = JsonEnvelopeLike
        /\ result[r].status = "resolved"

\* a step of a getEntryData operation of caller c
GetEntryDataStep(c) ==
    /\ call'[c] # Undefined
    /\ call'[c].op = "getEntryData"
    /\ pc'[c] # pc[c]

\* the last read operation that returned was a call of op, and no write was
\* accepted between its registry read and the registry read of c's operation
ReadsAfterGet(c, op) ==
    /\ lastGet # Null
    /\ lastGet.call.op = op
    /\ signedEntry[c] \notin {Undefined, Pending}
    /\ lastGet.readAt = readAt[c]

\* C8: two getEntryData calls with no write accepted between their registry
\* reads return the same data, a getEntryData issues no request but the
\* registry read, and no step of it changes the stored entry.
C8_ReadsIdempotent ==
    /\ [](\A c \in Clients :
            (SettledOp(c, "getEntryData") /\ ReadsAfterGet(c, "getEntryData"))
                => result[c] = lastGet.result)
    /\ [](\A c \in Clients :
            (call[c] # Undefined /\ call[c].op = "getEntryData")
                => \A i \in DOMAIN calls[c] : calls[c][i] = "getEntry")
    /\ [][\A c \in Clients : GetEntryDataStep(c) => UNCHANGED <<stored, accepted>>]_vars

C8_Witness ==
    \E c \in Clients :
        /\ SettledOp(c, "getEntryData")
        /\ ReadsAfterGet(c, "getEntryData")
        /\ accepted > 0
        /\ result[c].value.data # Null

\* C9: a getEntryData whose registry read follows an accepted
\* deleteEntryData, with no write accepted in between, returns {data: null}.
C9_DeletedReadsNull ==
    \A r \in Clients :
        (SettledOp(r, "getEntryData") /\ ReadsWriteOf(r, "deleteEntryData"))
            => result[r] = Resolved([data |-> Null])

C9_Witness ==
    \E r \in Clients :
        /\ SettledOp(r, "getEntryData")
        /\ ReadsWriteOf(r, "deleteEntryData")
        /\ lastWrite.prior # Null
        /\ ~areEqualUint8Arrays(lastWrite.prior.data, DELETION_ENTRY_DATA)
        /\ result[r] = Resolved([data |-> Null])

\* C10: a getJSON or getRawBytes whose registry read follows an accepted
\* deleteJSON, with no write accepted in between, returns
\* {data: null, dataLink: null} and issues no download.
C10_DeletedIsAbsent ==
    \A r \in Clients :
        (/\ call[r] # Undefined
         /\ call[r].op \in {"getJSON", "getRawBytes"}
         /\ ReadsWriteOf(r, "deleteJSON"))
            => /\ Settled(r)
               /\ result[r] = Resolved([data |-> Null, dataLink |-> Null])
               /\ calls[r] = <<"getEntry">>

C10_Witness ==
    \E r \in Clients :
        /\ SettledOp(r, "getRawBytes")
        /\ ReadsWriteOf(r, "deleteJSON")
        /\ ReadsAfterGet(r, "getJSON")
        /\ lastGet.result = Resolved([data |-> Null, dataLink |-> Null])
        /\ lastWrite.prior # Null
        /\ ~areEqualUint8Arrays(lastWrite.prior.data, DELETION_ENTRY_DATA)

\* C11: a settled setEntryData given MAX_ENTRY_LENGTH + 1 bytes was rejected by
\* validation with no request issued; one given MAX_ENTRY_LENGTH bytes passed
\* validation and, unless the portal refused the write or the revisions of the
\* key were used up, resolved to its data with that data stored.
C11_LengthLimit ==
    \A c \in Clients :
        SettledOp(c, "setEntryData") =>
            /\ Len(call[c].data.bytes) = MAX_ENTRY_LENGTH + 1 =>
                  /\ result[c] = Rejected("ValidationError")
                  /\ calls[c] = <<>>
            /\ Len(call[c].data.bytes) = MAX_ENTRY_LENGTH =>
                  /\ result[c] # Rejected("ValidationError")
                  /\ calls[c][1] = "getEntry"
                  /\ (signedEntry[c].entry = Null
                        \/ signedEntry[c].entry.revision # MAX_REVISION) =>
                        calls[c] = <<"getEntry", "setEntry">>
                  /\ result[c] \notin {Rejected("PortalRejected"),
                                       Rejected("RevisionOverflow")} =>
                        /\ result[c] = Resolved([data |-> call[c].data])
                        /\ stored.data = call[c].data.bytes

\* data of MAX_ENTRY_LENGTH bytes has been written, and a setEntryData given
\* one byte more has settled
C11_Witness ==
    \E c \in Clients :
        /\ SettledOp(c, "setEntryData")
        /\ Len(call[c].data.bytes) = MAX_ENTRY_LENGTH + 1
        /\ result[c] = Rejected("ValidationError")
        /\ lastWrite # Null
        /\ Len(lastWrite.call.data.bytes) = MAX_ENTRY_LENGTH
        /\ stored = Entry(lastWrite.call.data.bytes, stored.revision)

\* the call was given a malformed argument
Malformed(theCall) ==
    LET Has(field) == field \in DOMAIN theCall
    IN  \/ Has("privateKey") /\ theCall.privateKey \in BadPrivateKeys
        \/ Has("publicKey") /\ theCall.publicKey \in BadPublicKeys
        \/ theCall.dataKey \in BadDataKeys
        \/ Has("json") /\ theCall.json \in BadJsons
        \/ Has("data") /\ theCall.data \in BadData
        \/ Has("dataLink") /\ theCall.dataLink \in BadDataLinks

\* C12: an operation given a malformed argument has settled as a validation
\* error and has issued no request.
C12_MalformedFailsFirst ==
    \A c \in Clients :
        (call[c] # Undefined /\ Malformed(call[c])) =>
            /\ Settled(c)
            /\ result[c] = Rejected("ValidationError")
            /\ calls[c] = <<>>

\* a setDataLink given a string that is no skylink has settled, after a
\* well-formed call has written
C12_Witness ==
    \E c \in Clients :
        /\ SettledOp(c, "setDataLink")
        /\ call[c].dataLink = Str(<<"x">>)
        /\ call[c].privateKey = PrivateKey
        /\ call[c].dataKey = Str(DataKey)
        /\ result[c] = Rejected("ValidationError")
        /\ calls[c] = <<>>
        /\ lastWrite # Null

\* the options that the operation recognizes
OptionsModel(op) ==
    CASE op \in {"getJSON", "getRawBytes"} -> DEFAULT_GET_JSON_OPTIONS
      [] op = "getEntryData" -> DEFAULT_GET_ENTRY_OPTIONS
      [] op = "setJSON" -> DEFAULT_SET_JSON_OPTIONS
      [] OTHER -> DEFAULT_SET_ENTRY_DATA_OPTIONS

\* the options object of the call has a key that its operation does not recognize
HasUnrecognizedKey(theCall) ==
    \E key \in DOMAIN theCall.customOptions.fields :
        key \notin DOMAIN OptionsModel(theCall.op).fields

\* C13: an operation given an options object with an unrecognized key has
\* settled as a validation error with no request issued, and one given an
\* options object whose keys are all recognized passes validation and issues
\* its first request.
C13_Claimed ==
    \A c \in Clients :
        (call[c] # Undefined /\ call[c].customOptions.kind = "object") =>
            IF HasUnrecognizedKey(call[c])
            THEN /\ Settled(c)
                 /\ result[c] = Rejected("ValidationError")
                 /\ calls[c] = <<>>
            ELSE calls[c] # <<>>

\* a deleteJSON given options with the key toString, which no operation
\* recognizes, has written
C13_Witness ==
    \E c \in Clients :
        /\ SettledOp(c, "deleteJSON")
        /\ call[c].customOptions = Obj("toString" :> Num(1))
        /\ HasUnrecognizedKey(call[c])
        /\ calls[c] = <<"getEntry", "setEntry">>
        /\ result[c] = Resolved(Undefined)

\* the request was answered with an error
HasFailed(answer) == "error" \in DOMAIN answer /\ answer = Failed(answer.error)

Joined(c) == call[c] # Undefined /\ call[c].op = "setJSON" /\ pc[c] = "setEntry"

\* the entry that a setJSON of json writes over the entry read
JoinedEntry(json, read) ==
    Entry(decodeSkylinkBase64(trimUriPrefix(
              uploadFile(JSONstringify(Envelope(json))).skylink, URI_SKYNET_PREFIX)),
          getNextRevisionFromEntry(read).revision)

\* C15: a setJSON computes its entry when it has both the answer of the
\* upload and that of the registry read; the entry and the value to return
\* are determined by the json and the entry read, so that two setJSON calls
\* of the same json that read the same entry write the same entry and return
\* the same data link, in whichever order their requests were answered.
C15_OrderIrrelevant ==
    /\ \A c \in Clients :
          Joined(c) =>
              /\ "skylink" \in DOMAIN skyfile[c]
              /\ "entry" \in DOMAIN signedEntry[c]
              /\ entry[c] = JoinedEntry(call[c].json, signedEntry[c].entry)
    /\ \A c1, c2 \in Clients :
          (Joined(c1) /\ Joined(c2) /\ call[c1].json = call[c2].json
             /\ signedEntry[c1] = signedEntry[c2]) =>
              /\ entry[c1] = entry[c2]
              /\ SetReturnValue(c1) = SetReturnValue(c2)

\* two setJSON calls whose requests were answered while both were in flight
\* have read the same entry and are about to write the same entry
C15_Witness ==
    \E c1, c2 \in Clients :
        /\ c1 # c2
        /\ Joined(c1)
        /\ Joined(c2)
        /\ call[c1].json = call[c2].json
        /\ signedEntry[c1] = signedEntry[c2]
        /\ signedEntry[c1].entry # Null
        /\ entry[c1] = entry[c2]
        /\ entry[c1].revision = BigAdd(stored.revision, BigInt1)

\* the outcome is that of an operation that resolved
IsResolved(outcome) == "status" \in DOMAIN outcome /\ outcome.status = "resolved"

\* the caller's operation is a set or delete
IsSet(c) == call[c] # Undefined /\ call[c].op \in SetOps

\* C16: a set operation builds its entry in a step after which its registry
\* read is answered, and for setJSON its upload was answered before, with the
\* revision next to that of the entry read; it has called registry.setEntry
\* only when the entry is built; and it resolves only in the step in which
\* the portal accepts that entry.
C16_FixedOrder ==
    /\ [](\A c \in Clients :
            IsSet(c) =>
                /\ Sent(c) =>
                      /\ entry[c] # Undefined
                      /\ "entry" \in DOMAIN signedEntry[c]
                      /\ calls[c][Len(calls[c])] = "setEntry"
                /\ IsResolved(result[c]) =>
                      /\ Settled(c)
                      /\ Sent(c)
                      /\ stored = entry[c]
                      /\ lastWrite.call = call[c])
    /\ [][\A c \in Clients :
            /\ (IsSet(c) /\ entry'[c] # entry[c] /\ entry[c] = Undefined) =>
                  /\ "entry" \in DOMAIN signedEntry'[c]
                  /\ call[c].op = "setJSON" => "skylink" \in DOMAIN skyfile[c]
                  /\ entry'[c].revision =
                        getNextRevisionFromEntry(signedEntry'[c].entry).revision
                  /\ ~Sent(c)
                  /\ Sent(c)'
            /\ (IsSet(c) /\ result[c] = Pending /\ IsResolved(result'[c])) =>
                  /\ pc[c] = "setEntry"
                  /\ stored' = entry[c]
                  /\ accepted' = accepted + 1]_vars

\* a setJSON and a setEntryData have both written: the one settled last read
\* what the other wrote
C16_Witness ==
    \E c \in Clients :
        /\ SettledOp(c, "setJSON")
        /\ result[c].status = "resolved"
        /\ calls[c] = <<"uploadFile", "getEntry", "setEntry">>
        /\ stored = entry[c]
        /\ lastWrite.prior # Null
        /\ signedEntry[c].entry = lastWrite.prior
        /\ lastWrite.prior.data = <<1, 2, 3>>

\* the number of requests of the kind among those the caller's operation issued
Requests(c, request) == Cardinality({i \in DOMAIN calls[c] : calls[c][i] = request})

\* C17: a set or delete operation issues at most one registry read, one
\* upload and one registry write; the step in which the portal rejects its
\* write settles it with that error and issues nothing, and a settled
\* operation issues no request.
C17_NoRetry ==
    /\ [](\A c \in Clients :
            IsSet(c) =>
                /\ Requests(c, "getEntry") <= 1
                /\ Requests(c, "uploadFile") <= 1
                /\ Requests(c, "setEntry") <= 1
                /\ result[c] = Rejected("PortalRejected") =>
                      /\ Settled(c)
                      /\ calls[c][Len(calls[c])] = "setEntry")
    /\ [][\A c \in Clients :
            /\ (IsSet(c) /\ pc[c] = "setEntry" /\ pc'[c] # "setEntry"
                  /\ ~IsResolved(result'[c])) =>
                  /\ result'[c] = Rejected("PortalRejected")
                  /\ pc'[c] = "done"
                  /\ calls'[c] = calls[c]
                  /\ UNCHANGED <<stored, accepted>>
            /\ (IsSet(c) /\ Settled(c)) =>
                  \/ calls'[c] = calls[c] /\ pc'[c] = "done"
                  \/ calls'[c] = <<>> /\ pc'[c] = "idle"]_vars

\* a deleteJSON whose write the portal rejected has settled; it issued one
\* read and one write
C17_Witness ==
    \E c \in Clients :
        /\ SettledOp(c, "deleteJSON")
        /\ result[c] = Rejected("PortalRejected")
        /\ calls[c] = <<"getEntry", "setEntry">>
        /\ stored # entry[c]

\* the downloads of download.js
Downloads == {"getFileContent", "getMetadata"}

\* the caller's download has settled on an answer of the portal with headers
Answered(c) ==
    /\ Settled(c)
    /\ call[c].op \in Downloads
    /\ "headers" \in DOMAIN response[c]
    /\ response[c].headers # Undefined

\* the skylink the caller asked for, the link the answer returns and the
\* proof header of the answer
InputSkylink(c) == parseSkylink(call[c].skylinkUrl.str)
ReturnedLink(c) == Prop(response[c].headers, "skynet-skylink")
ProofHeader(c) == Prop(response[c].headers, "skynet-proof")

\* the header is absent or empty, or is the text of the empty array
IsEmptyProof(proof) ==
    \/ proof \in {Undefined, Str(<<>>)}
    \/ /\ ~JSONparseString(proof.str).threw
       /\ JSONparseString(proof.str).value = Array(<<>>)

\* the header is the text of an array with a step
IsNonEmptyProof(proof) ==
    /\ proof \notin {Undefined, Str(<<>>)}
    /\ ~JSONparseString(proof.str).threw
    /\ JSONparseString(proof.str).value.kind = "array"
    /\ JSONparseString(proof.str).value.items # <<>>

\* C18: a download of a data link whose answer returns the same link with an
\* empty proof, the proof header absent or carrying an empty proof, resolves.
C18_Claimed ==
    \A c \in Clients :
        (/\ Answered(c)
         /\ isSkylinkV1(InputSkylink(c).str)
         /\ ReturnedLink(c) = InputSkylink(c)
         /\ IsEmptyProof(ProofHeader(c))) => IsResolved(result[c])

\* a download of a data link has been answered with the same link and the
\* proof header [], and is rejected for a proof that is not empty
C18_Witness ==
    \E c \in Clients :
        /\ Answered(c)
        /\ isSkylinkV1(InputSkylink(c).str)
        /\ ReturnedLink(c) = InputSkylink(c)
        /\ ProofHeader(c) = Str(<<"[", "]">>)
        /\ result[c] = Rejected(ResponseInvalid("UnexpectedProof"))

\* the downloads of a data link answered with the same link and without a
\* proof header, or with an empty one, resolve
C18_AbsentProof ==
    \A c \in Clients :
        (/\ Answered(c)
         /\ isSkylinkV1(InputSkylink(c).str)
         /\ ReturnedLink(c) = InputSkylink(c)
         /\ ProofHeader(c) \in {Undefined, Str(<<>>)}) => IsResolved(result[c])

\* the caller's download is rejected for an invalid answer with the cause
InvalidFor(c, cause) == result[c] = Rejected(ResponseInvalid(cause))

\* C19 as stated: a download of a data link whose answer carries a proof that
\* is not empty is rejected with the unexpected-proof error.
C19_Claimed ==
    \A c \in Clients :
        (/\ Answered(c)
         /\ isSkylinkV1(InputSkylink(c).str)
         /\ IsNonEmptyProof(ProofHeader(c))) => InvalidFor(c, "UnexpectedProof")

\* C19: a download of a data link whose answer carries a proof that is not
\* empty is rejected: with the unexpected-proof error when the answer returns
\* the link asked for, and with the mismatch error when it returns another.
C19_UnexpectedProof ==
    \A c \in Clients :
        (/\ Answered(c)
         /\ isSkylinkV1(InputSkylink(c).str)
         /\ IsNonEmptyProof(ProofHeader(c))) =>
            IF ReturnedLink(c) = InputSkylink(c)
            THEN InvalidFor(c, "UnexpectedProof")
            ELSE InvalidFor(c, "ProofMismatch")

\* a getMetadata of a data link has been answered with the link asked for and
\* a proof with a step, and is rejected with the unexpected-proof error
C19_Witness ==
    \E c \in Clients :
        /\ Answered(c)
        /\ call[c].op = "getMetadata"
        /\ isSkylinkV1(InputSkylink(c).str)
        /\ ReturnedLink(c) = InputSkylink(c)
        /\ IsNonEmptyProof(ProofHeader(c))
        /\ InvalidFor(c, "UnexpectedProof")

\* the proof header is one that validateRegistryProofResponse cannot parse
IsUnparsedProof(proof) ==
    /\ Truthy(proof)
    /\ \/ JSONparseString(proof.str).threw
       \/ ~Truthy(JSONparseString(proof.str).value)

\* the answer returns a link that the link asked for excludes: another link
\* for a data link, the same link for a resolver link
LinkMismatch(c) ==
    IF isSkylinkV1(InputSkylink(c).str)
    THEN ReturnedLink(c) # InputSkylink(c)
    ELSE ReturnedLink(c) = InputSkylink(c)

\* C20: a download of a data link whose answer returns another link, and a
\* download of a resolver link whose answer returns that same link, are
\* rejected; with the mismatch error unless the proof header cannot be parsed.
C20_LinkMismatch ==
    \A c \in Clients :
        (Answered(c) /\ LinkMismatch(c)) =>
            IF IsUnparsedProof(ProofHeader(c))
            THEN InvalidFor(c, "ProofParseError")
            ELSE InvalidFor(c, "ProofMismatch")

\* a getFileContent of a resolver link has been answered with that same link
\* and is rejected with the mismatch error
C20_Witness ==
    \E c \in Clients :
        /\ Answered(c)
        /\ call[c].op = "getFileContent"
        /\ ~isSkylinkV1(InputSkylink(c).str)
        /\ ReturnedLink(c) = InputSkylink(c)
        /\ InvalidFor(c, "ProofMismatch")

\* a getFileContent of a data link has been answered with another link and
\* is rejected with the mismatch error
C20_DataLinkReached ==
    \E c \in Clients :
        /\ Answered(c)
        /\ call[c].op = "getFileContent"
        /\ isSkylinkV1(InputSkylink(c).str)
        /\ ReturnedLink(c) # InputSkylink(c)
        /\ InvalidFor(c, "ProofMismatch")

\* the steps of the proof header, the empty sequence for a header that is
\* absent or empty or is no array
ProofChain(proof) ==
    IF IsNonEmptyProof(proof) THEN JSONparseString(proof.str).value.items ELSE <<>>

\* the steps are a chain of registry entries that leads from the resolver
\* link to the data link
IsChain(steps, from, to) ==
    /\ steps # <<>>
    /\ \A k \in DOMAIN steps :
          /\ steps[k].num \in DOMAIN ProofSteps
          /\ ProofSteps[steps[k].num].entryLink =
                IF k = 1 THEN from ELSE ProofSteps[steps[k - 1].num].data
    /\ ProofSteps[steps[Len(steps)].num].data = to

\* C21: a download of a resolver link resolves only if its answer carries a
\* proof, not empty, that is a chain from the link asked for to the link
\* returned; it is rejected when the proof is absent, empty or broken.
C21_ProofRequired ==
    \A c \in Clients :
        (Answered(c) /\ ~isSkylinkV1(InputSkylink(c).str)) =>
            IF IsChain(ProofChain(ProofHeader(c)), InputSkylink(c).str, ReturnedLink(c).str)
            THEN IsResolved(result[c])
            ELSE /\ ~IsResolved(result[c])
                 /\ (~IsUnparsedProof(ProofHeader(c)) /\ ~LinkMismatch(c)) =>
                        InvalidFor(c, "ProofInvalid")

\* a getFileContent of a resolver link has been answered with a data link and
\* a proof of two steps of which the second does not follow from the first,
\* and is rejected
C21_Witness ==
    \E c \in Clients :
        /\ Answered(c)
        /\ call[c].op = "getFileContent"
        /\ InputSkylink(c) = Str(EntryLink)
        /\ ReturnedLink(c) = Str(FileLinks[2])
        /\ ProofHeader(c) = Str(<<"[", "1", ",", "2", "]">>)
        /\ InvalidFor(c, "ProofInvalid")

\* a getMetadata of a resolver link answered with a chain of two steps to the
\* link returned has resolved
C21_ChainAccepted ==
    \E c \in Clients :
        /\ Answered(c)
        /\ call[c].op = "getMetadata"
        /\ InputSkylink(c) = Str(EntryLink)
        /\ ProofHeader(c) = Str(<<"[", "1", ",", "3", "]">>)
        /\ IsResolved(result[c])

\* the caller's operation of the kind has settled
SettledAs(c, op) == Settled(c) /\ call[c].op = op

\* the request of the caller's lookupRegistry or updateRegistry failed with
\* the error
RequestFailed(c, error) == response[c] = Failed(error)

\* the registry read of the caller's db operation failed
ReadFailed(c) == call[c].op \in ReadOps /\ HasFailed(signedEntry[c])

\* C22: a registry lookup whose request fails with the portal's not-found
\* answer returns null; a lookup whose request fails otherwise is rejected,
\* and a read of the db whose registry read fails is rejected with its error.
C22_Claimed ==
    \A c \in Clients :
        /\ SettledAs(c, "lookupRegistry") =>
              /\ RequestFailed(c, "NotFound") => result[c] = Resolved(Null)
              /\ \A error \in RequestErrors \ {"NotFound"} :
                    RequestFailed(c, error) => ~IsResolved(result[c])
        /\ (Settled(c) /\ ReadFailed(c)) => result[c] = Rejected(signedEntry[c].error)

\* a lookupRegistry whose request failed with a network error has returned
\* null
C22_Witness ==
    \E c \in Clients :
        /\ SettledAs(c, "lookupRegistry")
        /\ RequestFailed(c, "NetworkError")
        /\ result[c] = Resolved(Null)

\* the reads of the db let the error of their registry read through
C22_ReadPropagates ==
    \A c \in Clients :
        (Settled(c) /\ ReadFailed(c)) => result[c] = Rejected(signedEntry[c].error)

\* a getJSON whose registry read failed is rejected with the error
C22_ReadFailedReached ==
    \E c \in Clients :
        /\ SettledAs(c, "getJSON")
        /\ signedEntry[c] = Failed("GetEntryFailed")
        /\ result[c] = Rejected("GetEntryFailed")

\* C23: an updateRegistry whose request the portal answers with a status that
\* is no success, a conflict of revisions for one, is rejected with an error.
C23_Claimed ==
    \A c \in Clients :
        \A error \in RequestErrors :
            (SettledAs(c, "updateRegistry") /\ RequestFailed(c, error)) =>
                ~IsResolved(result[c])

\* an updateRegistry whose request failed with a conflict has returned false
C23_Witness ==
    \E c \in Clients :
        /\ SettledAs(c, "updateRegistry")
        /\ RequestFailed(c, "Conflict")
        /\ result[c] = Resolved(Bool(FALSE))

\* an updateRegistry whose request failed does not return true
C23_NotReportedDone ==
    \A c \in Clients :
        \A error \in RequestErrors :
            (SettledAs(c, "updateRegistry") /\ RequestFailed(c, error)) =>
                result[c] # Resolved(Bool(TRUE))

\* the caller's lookupRegistry has returned an entry
ReturnedEntry(c) ==
    /\ SettledAs(c, "lookupRegistry")
    /\ IsResolved(result[c])
    /\ result[c].value # Null

\* the signature of the entry the portal answered with verifies under the
\* public key of the user the caller asked for
Verifies(c) ==
    verify(call[c].user.publicKey,
           SignedMessage(Prop(response[c].data, "Data"), Prop(response[c].data, "Revision")),
           Prop(response[c].data, "Signature"))

\* C24: an entry that a registry lookup returns verifies under the public key
\* asked for, and a read of the db whose entry does not verify is rejected
\* with that error.
C24_Claimed ==
    \A c \in Clients :
        /\ ReturnedEntry(c) => Verifies(c)
        /\ (Settled(c) /\ call[c].op \in ReadOps
              /\ signedEntry[c] = Failed("SignatureInvalid")) =>
                result[c] = Rejected("SignatureInvalid")

\* a lookupRegistry has returned an entry with the signature of another
\* revision
C24_Witness ==
    \E c \in Clients :
        /\ ReturnedEntry(c)
        /\ ~Verifies(c)
        /\ result[c].value.signature = Prop(response[c].data, "Signature")

\* a lookupRegistry has returned an entry whose signature verifies
C24_VerifiedReached == \E c \in Clients : ReturnedEntry(c) /\ Verifies(c)

\* the caller's getJSON or getRawBytes has read an entry that is there and is
\* not deleted
FoundEntry(c) ==
    /\ call[c] # Undefined
    /\ call[c].op \in {"getJSON", "getRawBytes"}
    /\ signedEntry[c] \notin {Undefined, Pending}
    /\ ~HasFailed(signedEntry[c])
    /\ SkyDBEntry(signedEntry[c].entry) # Null

\* the caller's read failed on the form of the entry data, with no download
MalformedEntryData(c) ==
    /\ Settled(c)
    /\ result[c] = Rejected("ValidationError")
    /\ calls[c] = <<"getEntry">>

\* C25 as stated: getJSON and getRawBytes take entry data of the length of a
\* raw skylink and of the length of a skylink in base64 text, and fail on
\* data of any other length before a download.
C25_Claimed ==
    \A c \in Clients :
        FoundEntry(c) =>
            IF Len(signedEntry[c].entry.data) \in {RAW_SKYLINK_SIZE, BASE64_ENCODED_SKYLINK_SIZE}
            THEN ~MalformedEntryData(c)
            ELSE MalformedEntryData(c)

\* C25: getJSON takes entry data of the length of a raw skylink and of the
\* length of a skylink in base64 text; getRawBytes takes the raw length only;
\* on data of any other length the read fails before a download.
C25_EntryDataLength ==
    \A c \in Clients :
        FoundEntry(c) =>
            IF \/ Len(signedEntry[c].entry.data) = RAW_SKYLINK_SIZE
               \/ /\ call[c].op = "getJSON"
                  /\ Len(signedEntry[c].entry.data) = BASE64_ENCODED_SKYLINK_SIZE
            THEN ~MalformedEntryData(c)
            ELSE MalformedEntryData(c)

\* a getRawBytes that read a skylink in base64 text has failed with no
\* download
C25_Witness ==
    \E c \in Clients :
        /\ FoundEntry(c)
        /\ call[c].op = "getRawBytes"
        /\ Len(signedEntry[c].entry.data) = BASE64_ENCODED_SKYLINK_SIZE
        /\ MalformedEntryData(c)

\* a getJSON that read a skylink in base64 text has downloaded the file and
\* returned its data
C25_LegacyReached ==
    \E c \in Clients :
        /\ FoundEntry(c)
        /\ call[c].op = "getJSON"
        /\ signedEntry[c].entry.data = stringToUint8ArrayUtf8(FileLinks[1])
        /\ calls[c] = <<"getEntry", "getFileContent">>
        /\ result[c] = Resolved([data |-> JsonA, dataLink |-> Str(formatSkylink(FileLinks[1]))])

\* a getJSON that read data of one byte more than a raw skylink has failed
C25_OtherLengthReached ==
    \E c \in Clients :
        /\ FoundEntry(c)
        /\ call[c].op = "getJSON"
        /\ Len(signedEntry[c].entry.data) = RAW_SKYLINK_SIZE + 1
        /\ MalformedEntryData(c)

\* the data link of the entry the caller's read found, as parseDataLink
\* resolves it for the operation
ResolvedLink(c) == parseDataLink(signedEntry[c].entry.data, call[c].op = "getJSON")

\* the caller's read found an entry whose data resolves to a data link
Resolves(c) == FoundEntry(c) /\ ~ResolvedLink(c).threw

\* the hint of the caller's options, Undefined when there is none
Hint(c) == Prop(call[c].customOptions, "cachedDataLink")

\* the caller gave a hint, and it is the link the entry resolves to
HintMatches(c) ==
    /\ Hint(c) # Undefined
    /\ trimUriPrefix(Hint(c).str, URI_SKYNET_PREFIX) = ResolvedLink(c).rawDataLink

\* C26: a getJSON or getRawBytes whose hint is the data link its entry
\* resolves to returns null data and that link, and issues no download.
C26_ShortCircuit ==
    \A c \in Clients :
        (Resolves(c) /\ HintMatches(c)) =>
            /\ Settled(c)
            /\ result[c] = Resolved([data |-> Null, dataLink |-> Str(ResolvedLink(c).dataLink)])
            /\ calls[c] = <<"getEntry">>

\* a getRawBytes with the link of file 1 as its hint has read the raw skylink
\* of file 1 and returned without a download
C26_Witness ==
    \E c \in Clients :
        /\ Resolves(c)
        /\ HintMatches(c)
        /\ call[c].op = "getRawBytes"
        /\ signedEntry[c].entry.data = RawSkylink(1)
        /\ result[c] = Resolved([data |-> Null, dataLink |-> Str(formatSkylink(FileLinks[1]))])
        /\ calls[c] = <<"getEntry">>

\* a getJSON with the link of file 4 with its prefix as hint has read the raw
\* skylink of file 4 and returned without a download
C26_PrefixedHintReached ==
    \E c \in Clients :
        /\ Resolves(c)
        /\ HintMatches(c)
        /\ call[c].op = "getJSON"
        /\ Hint(c) = Str(formatSkylink(FileLinks[4]))
        /\ calls[c] = <<"getEntry">>

\* the call has a hint, and it is the link the data of the entry resolves to
\* for the call's operation
MatchesEntry(theCall, theEntry) ==
    LET found == SkyDBEntry(theEntry)
        hint == Prop(theCall.customOptions, "cachedDataLink")
    IN  /\ found # Null
        /\ hint # Undefined
        /\ ~parseDataLink(found.data, theCall.op = "getJSON").threw
        /\ trimUriPrefix(hint.str, URI_SKYNET_PREFIX) =
              parseDataLink(found.data, theCall.op = "getJSON").rawDataLink

\* the last read that returned was the operation without a hint
LastWithoutHint(op) ==
    /\ lastGet # Null
    /\ lastGet.call.op = op
    /\ lastGet.call.customOptions = Undefined

\* C27: a settled getJSON or getRawBytes has read the registry, whatever its
\* hint; and with a hint that is not the link the entry resolves to, its
\* outcome is the outcome of the same operation without a hint on the same
\* entry.
C27_HintIrrelevant ==
    \A c \in Clients :
        (Settled(c) /\ call[c].op \in {"getJSON", "getRawBytes"}) =>
            /\ calls[c][1] = "getEntry"
            /\ signedEntry[c] = [entry |-> stored]
            /\ (LastWithoutHint(call[c].op) /\ ~MatchesEntry(call[c], stored)) =>
                  result[c] = lastGet.result

\* a getJSON with the link of file 1 as hint has read the raw skylink of file
\* 4 and returned the data of file 4, as the getJSON without a hint before it
C27_Witness ==
    \E c \in Clients :
        /\ SettledAs(c, "getJSON")
        /\ Hint(c) = Str(FileLinks[1])
        /\ stored # Null
        /\ stored.data = RawSkylink(4)
        /\ LastWithoutHint("getJSON")
        /\ result[c] = lastGet.result
        /\ result[c] = Resolved([data |-> JsonA, dataLink |-> Str(formatSkylink(FileLinks[4]))])

\* the caller's getJSON has settled after its download
Downloaded(c) ==
    /\ SettledAs(c, "getJSON")
    /\ calls[c] = <<"getEntry", "getFileContent">>

\* the file the caller's getJSON downloaded
File(c) == FileAt(ResolvedLink(c).dataLink)

\* the value is a JSON object, and the object has the field
IsObject(value) == value.kind = "object"
Has(value, key) == key \in DOMAIN value.fields

\* the file is an object with both fields of the envelope
IsEnvelope(value) == IsObject(value) /\ Has(value, "_data") /\ Has(value, "_v")

\* C28: a getJSON that downloaded an object with both _data and _v, _data
\* being an object, returns the value of _data; a getJSON that downloaded an
\* object without one of the two returns the object.
C28_Claimed ==
    \A c \in Clients :
        (Downloaded(c) /\ IsObject(File(c))) =>
            /\ (IsEnvelope(File(c)) /\ IsObject(File(c).fields["_data"])) =>
                  result[c] = Resolved([data |-> File(c).fields["_data"],
                                        dataLink |-> Str(ResolvedLink(c).dataLink)])
            /\ ~IsEnvelope(File(c)) =>
                  result[c] = Resolved([data |-> File(c),
                                        dataLink |-> Str(ResolvedLink(c).dataLink)])

\* a getJSON that downloaded the object with _data and the _v of 0 has
\* returned the object, not the value of _data
C28_Witness ==
    \E c \in Clients :
        /\ Downloaded(c)
        /\ File(c) = Obj("_data" :> JsonA @@ "_v" :> Num(0))
        /\ result[c] = Resolved([data |-> File(c), dataLink |-> Str(ResolvedLink(c).dataLink)])

\* a getJSON that downloaded an object with both fields truthy returns the
\* value of _data, and one that downloaded an object without one of the
\* fields returns the object
C28_TruthyEnvelope ==
    \A c \in Clients :
        (Downloaded(c) /\ IsObject(File(c))) =>
            /\ (/\ IsEnvelope(File(c))
                /\ IsObject(File(c).fields["_data"])
                /\ Truthy(File(c).fields["_v"])) =>
                  result[c] = Resolved([data |-> File(c).fields["_data"],
                                        dataLink |-> Str(ResolvedLink(c).dataLink)])
            /\ ~IsEnvelope(File(c)) =>
                  result[c] = Resolved([data |-> File(c),
                                        dataLink |-> Str(ResolvedLink(c).dataLink)])

\* the value is no JSON object: a string, a number, a boolean or null
IsNoObject(value) == value.kind \in {"string", "number", "boolean", "null"}

\* the caller's getJSON is rejected with the error for data that is no JSON
NotJSON(c) == result[c] = Rejected("NotJSON")

\* C29: a getJSON that downloaded a value that is no object, or an object
\* with both _data and _v whose _data is no object, is rejected with the
\* not-JSON error; and the data a getJSON returns is an object or null.
C29_Claimed ==
    \A c \in Clients :
        /\ Downloaded(c) =>
              /\ IsNoObject(File(c)) => NotJSON(c)
              /\ (IsEnvelope(File(c)) /\ IsNoObject(File(c).fields["_data"])) => NotJSON(c)
        /\ (SettledAs(c, "getJSON") /\ IsResolved(result[c])) =>
              \/ result[c].value.data = Null
              \/ IsObject(result[c].value.data)

\* a getJSON that downloaded the envelope with null as _data has returned the
\* envelope
C29_Witness ==
    \E c \in Clients :
        /\ Downloaded(c)
        /\ File(c) = Obj("_data" :> Null @@ "_v" :> Num(JSON_RESPONSE_VERSION))
        /\ result[c] = Resolved([data |-> File(c), dataLink |-> Str(ResolvedLink(c).dataLink)])

\* a getJSON that downloaded a value that is no object, or an envelope whose
\* _data is truthy and no object, is rejected; the data that a getJSON
\* returns after a download is an object
C29_TruthyData ==
    \A c \in Clients :
        Downloaded(c) =>
            /\ IsNoObject(File(c)) => NotJSON(c)
            /\ (/\ IsEnvelope(File(c))
                /\ Truthy(File(c).fields["_v"])
                /\ Truthy(File(c).fields["_data"])
                /\ IsNoObject(File(c).fields["_data"])) => NotJSON(c)
            /\ IsResolved(result[c]) => IsObject(result[c].value.data)

\* a getJSON that downloaded a string is rejected
C29_StringReached ==
    \E c \in Clients : Downloaded(c) /\ File(c) = Str(<<"x">>) /\ NotJSON(c)

\* the operations that go through setEntryData
EntryDataOps == {"setEntryData", "setDataLink", "deleteEntryData", "deleteJSON"}

\* the call's data is the deletion sentinel
IsDeletion(theCall) ==
    /\ theCall.data.kind = "Uint8Array"
    /\ areEqualUint8Arrays(theCall.data.bytes, DELETION_ENTRY_DATA)

\* the flag is on in the options that setEntryData works with for the call,
\* and in the options of the caller
FlagOn(theCall) ==
    Prop(SetEntryDataOpts(theCall.options), "allowDeletionEntryData") = Bool(TRUE)
CallerFlagOn(theCall) ==
    Prop(theCall.customOptions, "allowDeletionEntryData") = Bool(TRUE)

\* C30: an operation whose data is the deletion sentinel issues a request,
\* and the sentinel is written, only with the flag on; a setEntryData or
\* setDataLink of the sentinel without the flag fails validation with no
\* request; deleteEntryData and deleteJSON pass validation and send the
\* sentinel whatever flag their caller gave.
C30_SentinelNeedsFlag ==
    /\ \A c \in Clients :
          (call[c] # Undefined /\ call[c].op \in EntryDataOps /\ IsDeletion(call[c])) =>
              /\ calls[c] # <<>> => FlagOn(call[c])
              /\ (Settled(c) /\ call[c].op \in {"setEntryData", "setDataLink"}
                    /\ ~CallerFlagOn(call[c])) =>
                    result[c] = Rejected("ValidationError") /\ calls[c] = <<>>
              /\ call[c].op \in {"deleteEntryData", "deleteJSON"} =>
                    /\ calls[c] # <<>>
                    /\ Sent(c) => areEqualUint8Arrays(entry[c].data, DELETION_ENTRY_DATA)
    /\ (stored # Null /\ areEqualUint8Arrays(stored.data, DELETION_ENTRY_DATA)) =>
          /\ lastWrite.call.op \in EntryDataOps
          /\ IsDeletion(lastWrite.call)
          /\ FlagOn(lastWrite.call)

\* a deleteEntryData whose caller gave the flag as false has written the
\* sentinel
C30_Witness ==
    \E c \in Clients :
        /\ SettledAs(c, "deleteEntryData")
        /\ Prop(call[c].customOptions, "allowDeletionEntryData") = Bool(FALSE)
        /\ IsResolved(result[c])
        /\ stored = entry[c]
        /\ areEqualUint8Arrays(stored.data, DELETION_ENTRY_DATA)

\* a setEntryData of the sentinel with the flag given as false has failed
\* validation with no request
C30_RejectedReached ==
    \E c \in Clients :
        /\ SettledAs(c, "setEntryData")
        /\ IsDeletion(call[c])
        /\ Prop(call[c].customOptions, "allowDeletionEntryData") = Bool(FALSE)
        /\ result[c] = Rejected("ValidationError")
        /\ calls[c] = <<>>

\* a setEntryData of the sentinel with the flag on has written the sentinel
C30_AllowedReached ==
    \E c \in Clients :
        /\ SettledAs(c, "setEntryData")
        /\ IsDeletion(call[c])
        /\ CallerFlagOn(call[c])
        /\ IsResolved(result[c])
        /\ areEqualUint8Arrays(stored.data, DELETION_ENTRY_DATA)

\* the raw skylink of the file uploaded for json: the text of the envelope
\* {_data: json, _v: 2}
UploadedData(json) ==
    RawSkylink(FileNumber(JSONstringify(Obj("_data" :> json @@ "_v" :> Num(2)))))

\* the revision that follows the entry read, BigInt(0) when none was found
NextRevision(read) == IF read = Null THEN BigInt0 ELSE BigAdd(read.revision, BigInt1)

\* C31: the entry a setJSON hands to registry.setEntry, and the entry the
\* registry holds after the write of a setJSON, has the data key of the
\* call, as data the raw skylink of the envelope of the call's json as its
\* own upload answered it, and as revision the one that follows the entry
\* its own registry read returned.
C31_EntryOfSetJSON ==
    /\ \A c \in Clients :
          (call[c] # Undefined /\ call[c].op = "setJSON" /\ Sent(c)) =>
              /\ entry[c].dataKey = call[c].dataKey.str
              /\ skyfile[c].skylink = formatSkylink(toBase64(UploadedData(call[c].json)))
              /\ entry[c].data = UploadedData(call[c].json)
              /\ entry[c].revision = NextRevision(signedEntry[c].entry)
    /\ (lastWrite # Null /\ lastWrite.call.op = "setJSON") =>
          /\ stored.dataKey = lastWrite.call.dataKey.str
          /\ stored.data = UploadedData(lastWrite.call.json)
          /\ stored.revision = NextRevision(lastWrite.read)

\* a setJSON has written over an entry that another operation wrote after
\* the setJSON had read: its revision follows the entry it read, not the one
\* it replaced
C31_Witness ==
    \E c \in Clients :
        /\ SettledAs(c, "setJSON")
        /\ IsResolved(result[c])
        /\ stored = entry[c]
        /\ lastWrite.call = call[c]
        /\ lastWrite.prior # lastWrite.read
        /\ stored.revision = NextRevision(signedEntry[c].entry)
        /\ stored.data = UploadedData(call[c].json)

\* the operations that merge the defaults, the client's options and the
\* options of the call, with the defaults of each and the merged options
\* each works with
DbMergeOps == {"getJSON", "getRawBytes", "setEntryData"}
RegistryMergeOps == {"lookupRegistry", "updateRegistry"}
DefaultsOf(theCall) ==
    CASE theCall.op \in {"getJSON", "getRawBytes"} -> DEFAULT_GET_JSON_OPTIONS
      [] theCall.op = "setEntryData" -> DEFAULT_SET_ENTRY_DATA_OPTIONS
      [] theCall.op \in RegistryMergeOps -> defaultRegistryOptions
OptsOf(theCall) ==
    CASE theCall.op \in {"getJSON", "getRawBytes"} -> GetJSONOpts(theCall.customOptions)
      [] theCall.op = "setEntryData" -> SetEntryDataOpts(theCall.customOptions)
      [] theCall.op \in RegistryMergeOps -> theCall.opts

\* in opts a key has the value of the call's options when they have the key,
\* else that of the client's options when they have it, else the default
Precedence(opts, defaults, client, perCall) ==
    /\ DOMAIN opts.fields = DOMAIN Own(defaults) \cup DOMAIN Own(client) \cup DOMAIN Own(perCall)
    /\ \A key \in DOMAIN opts.fields :
          opts.fields[key] =
              IF key \in DOMAIN Own(perCall) THEN Own(perCall)[key]
              ELSE IF key \in DOMAIN Own(client) THEN Own(client)[key]
              ELSE Own(defaults)[key]

Merges(c, mergeOps) == call[c] # Undefined /\ call[c].op \in mergeOps

\* C32: in every operation that merges options, a key of the call's options
\* overrides the same key of the client's options, which overrides the
\* default.
C32_Claimed ==
    \A c \in Clients :
        Merges(c, DbMergeOps \cup RegistryMergeOps) =>
            Precedence(OptsOf(call[c]), DefaultsOf(call[c]), thisCustomOptions,
                       call[c].customOptions)

\* a lookupRegistry called with an endpoint of its own, on a client built
\* with another endpoint, gives executeRequest the endpoint of the client
C32_Witness ==
    \E c \in Clients :
        /\ Merges(c, {"lookupRegistry"})
        /\ pc[c] = "lookupRegistry"
        /\ Prop(call[c].customOptions, "endpointPath") = Str(<<"/", "p">>)
        /\ Prop(thisCustomOptions, "endpointPath") = Str(<<"/", "c">>)
        /\ Prop(call[c].opts, "endpointPath") = Str(<<"/", "c">>)

\* the operations of the db merge in the claimed order
C32_DbPrecedence ==
    \A c \in Clients :
        Merges(c, DbMergeOps) =>
            Precedence(OptsOf(call[c]), DefaultsOf(call[c]), thisCustomOptions,
                       call[c].customOptions)

\* a getJSON whose own hint differs from the client's, which is the link of
\* the entry, has downloaded the file: the hint of the call was the one used
C32_CallHintReached ==
    \E c \in Clients :
        /\ SettledAs(c, "getJSON")
        /\ Prop(thisCustomOptions, "cachedDataLink") = Str(FileLinks[1])
        /\ Hint(c) # Undefined
        /\ Hint(c) # Str(FileLinks[1])
        /\ signedEntry[c].entry = Entry(RawSkylink(1), BigInt0)
        /\ IsResolved(result[c])
        /\ result[c].value.data # Null

\* the caller's read has settled, and its registry read saw the entry
\* written by the last setJSON that succeeded: no write came between
ReadsLastSetJSON(r) ==
    /\ Settled(r)
    /\ call[r].op \in {"getJSON", "getRawBytes"}
    /\ ReadsWriteOf(r, "setJSON")

\* C33: a getJSON or getRawBytes that reads the entry written by a setJSON
\* that succeeded, with no write in between, returns the data link that the
\* setJSON returned.
C33_SameDataLink ==
    \A r \in Clients :
        ReadsLastSetJSON(r) =>
            /\ IsResolved(result[r])
            /\ result[r].value.dataLink = lastWrite.returned.dataLink

\* a getRawBytes has returned the data link, with the sia:// prefix, that
\* the setJSON before it returned
C33_Witness ==
    \E r \in Clients :
        /\ ReadsLastSetJSON(r)
        /\ call[r].op = "getRawBytes"
        /\ IsResolved(result[r])
        /\ result[r].value.dataLink = lastWrite.returned.dataLink
        /\ startsWith(result[r].value.dataLink.str, URI_SKYNET_PREFIX)
        /\ stored.data = UploadedData(lastWrite.call.json)

\* a getJSON has returned the data link of the setJSON before it
C33_GetJSONReached ==
    \E r \in Clients :
        /\ ReadsLastSetJSON(r)
        /\ call[r].op = "getJSON"
        /\ IsResolved(result[r])
        /\ result[r].value.dataLink = lastWrite.returned.dataLink

\* the caller's operation is a getFileContentHns
IsHns(c) == call[c] # Undefined /\ call[c].op = "getFileContentHns"

\* the answer is there and is no failure
Succeeded(answer) == answer # Undefined /\ ~HasFailed(answer)

\* the outcome that the two answers determine
HnsOutcome(theResponse, theResolved) ==
    LET valid == validateGetFileContentResponse(theResponse, theResolved.skylink)
    IN  IF valid.threw THEN Rejected(valid.error)
        ELSE Resolved(extractGetFileContentResponse(theResponse))

\* C34: getFileContentHns has the content request and resolveHns in flight
\* together; it returns only when both have succeeded and the response is
\* valid for the skylink that resolveHns returned; when both have succeeded
\* its outcome is determined by the two answers alone, whichever came first;
\* when either has failed the call fails.
C34_BothRequired ==
    \A c \in Clients :
        IsHns(c) =>
            /\ calls[c] = <<"executeRequest", "resolveHns">>
            /\ pc[c] = "getFileContentHns" =>
                  /\ result[c] = Pending
                  /\ response[c] = Undefined \/ resolvedHns[c] = Undefined
                  /\ ~HasFailed(response[c]) /\ ~HasFailed(resolvedHns[c])
            /\ (Settled(c) /\ IsResolved(result[c])) =>
                  /\ Succeeded(response[c]) /\ Succeeded(resolvedHns[c])
                  /\ ~validateGetFileContentResponse(response[c],
                                                     resolvedHns[c].skylink).threw
            /\ (Settled(c) /\ Succeeded(response[c]) /\ Succeeded(resolvedHns[c])) =>
                  result[c] = HnsOutcome(response[c], resolvedHns[c])
            /\ (Settled(c) /\ (HasFailed(response[c]) \/ HasFailed(resolvedHns[c]))) =>
                  ~IsResolved(result[c])

\* a getFileContentHns of a domain that resolves to a resolver link has
\* returned the content of the data link that the proof leads to
C34_Witness ==
    \E c \in Clients :
        /\ IsHns(c)
        /\ Settled(c)
        /\ IsResolved(result[c])
        /\ Succeeded(resolvedHns[c])
        /\ resolvedHns[c].skylink = Str(EntryLink)
        /\ Prop(response[c].headers, "skynet-skylink") = Str(FileLinks[2])
        /\ IsNonEmptyProof(Prop(response[c].headers, "skynet-proof"))
        /\ result[c].value.skylink = Str(formatSkylink(FileLinks[2]))

\* the content request was answered first and the call waits for resolveHns
C34_ContentFirstReached ==
    \E c \in Clients : IsHns(c) /\ pc[c] = "getFileContentHns" /\ Succeeded(response[c])

\* resolveHns answered first and the call waits for the content
C34_ResolveFirstReached ==
    \E c \in Clients : IsHns(c) /\ pc[c] = "getFileContentHns" /\ Succeeded(resolvedHns[c])

\* the content was answered, resolveHns failed afterwards, and the call failed
C34_LateFailureReached ==
    \E c \in Clients :
        /\ IsHns(c)
        /\ Settled(c)
        /\ Succeeded(response[c])
        /\ HasFailed(resolvedHns[c])
        /\ result[c] = Rejected("ResolveHnsInvalid")

\* the response names another link than resolveHns returned: the call failed
C34_MismatchReached ==
    \E c \in Clients :
        /\ IsHns(c)
        /\ Settled(c)
        /\ Succeeded(response[c])
        /\ Succeeded(resolvedHns[c])
        /\ resolvedHns[c].skylink = Str(FileLinks[1])
        /\ Prop(response[c].headers, "skynet-skylink") = Str(FileLinks[2])
        /\ result[c] = Rejected(ResponseInvalid("ProofMismatch"))

\* the caller's operation is a download to a file
ToPathOps == {"downloadFileToPath", "downloadFileToPathRequest"}
IsToPath(c) == call[c] # Undefined /\ call[c].op \in ToPathOps

\* C35: every call of downloadFileToPath or downloadFileToPathRequest
\* eventually settles.
C35_Claimed ==
    \A c \in Clients : (IsToPath(c) /\ ~Settled(c)) ~> Settled(c)

\* the response's stream has failed midway: the call waits for a finish or an
\* error of the write stream, which is open and was not ended
C35_Witness ==
    \E c \in Clients :
        /\ IsToPath(c)
        /\ pc[c] = "pipe"
        /\ response[c].data = Stream("errored")
        /\ writer[c] = "open"
        /\ result[c] = Pending

\* the write stream failed before the request was answered, when nothing
\* listened: the call waits in the pipe
C35_UnheardErrorReached ==
    \E c \in Clients :
        /\ IsToPath(c)
        /\ pc[c] = "pipe"
        /\ writer[c] = "errored"
        /\ result[c] = Pending

\* a call that resolves does so with the metadata after the write stream
\* has emitted finish; a call whose request failed, or whose write stream
\* emitted error in the pipe, has failed
C35_ResolvesAfterFinish ==
    \A c \in Clients :
        IsToPath(c) =>
            /\ IsResolved(result[c]) =>
                  /\ writer[c] = "finished"
                  /\ response[c].data = Stream("ended")
                  /\ result[c].value = getDownloadHeaders(response[c])
            /\ HasFailed(response[c]) => result[c] = Rejected("NetworkError")
            /\ (Settled(c) /\ writer[c] = "errored") => ~IsResolved(result[c])

\* a download has resolved with the metadata
C35_ResolvedReached ==
    \E c \in Clients :
        /\ IsToPath(c)
        /\ Settled(c)
        /\ writer[c] = "finished"
        /\ result[c] = Resolved(getDownloadHeaders(response[c]))

\* the header of the response is a string
StringHeader(theResponse, name) ==
    /\ theResponse.headers # Undefined
    /\ Prop(theResponse.headers, name).kind = "string"

\* the response has data, the three headers are strings and the skylink
\* header is a skylink
Complete(theResponse) ==
    /\ theResponse.data \notin {Undefined, Null}
    /\ StringHeader(theResponse, "content-type")
    /\ StringHeader(theResponse, "skynet-portal-api")
    /\ StringHeader(theResponse, "skynet-skylink")
    /\ parseSkylink(Prop(theResponse.headers, "skynet-skylink").str) # Null

\* the caller's getFileContent has settled on an answer of the portal
ContentAnswered(c) ==
    Settled(c) /\ call[c].op = "getFileContent" /\ response[c] # Undefined

\* C36: a getFileContent that returns had an answer with data, with the
\* headers content-type, skynet-portal-api and skynet-skylink as strings and
\* with a skylink in the last; an answer that lacks one of them fails the
\* call with the error of an invalid response; an answer whose data is the
\* empty string, complete otherwise, is returned with that data.
C36_CompleteResponse ==
    \A c \in Clients :
        ContentAnswered(c) =>
            /\ IsResolved(result[c]) => Complete(response[c])
            /\ ~Complete(response[c]) =>
                  \E cause \in {"DataMissing", "HeadersMissing", "ContentTypeMissing",
                                "PortalUrlMissing", "SkylinkMissing"} :
                      InvalidFor(c, cause)
            /\ (Complete(response[c]) /\ response[c].data = Str(<<>>)
                  /\ Prop(response[c].headers, "skynet-skylink") = call[c].skylinkUrl) =>
                  /\ IsResolved(result[c])
                  /\ result[c].value.data = Str(<<>>)

\* a getFileContent has returned the content of a file of no bytes
C36_Witness ==
    \E c \in Clients :
        /\ ContentAnswered(c)
        /\ Complete(response[c])
        /\ response[c].data = Str(<<>>)
        /\ IsResolved(result[c])
        /\ result[c].value.data = Str(<<>>)

\* an answer whose portal header is no string has failed the call
C36_NoStringReached ==
    \E c \in Clients :
        /\ ContentAnswered(c)
        /\ response[c].data = Str(<<"d">>)
        /\ Prop(response[c].headers, "skynet-portal-api") = Num(1)
        /\ Prop(response[c].headers, "content-type") = Str(<<"t">>)
        /\ InvalidFor(c, "PortalUrlMissing")

\* the value is absent, or is an object whose properties all exist in model
IsOptionalObject(value, model) ==
    \/ value \in {Undefined, Null}
    \/ /\ value.kind = "object"
       /\ \A property \in DOMAIN value.fields : In(property, model)

\* the caller's getJSON has validated its arguments, of which the options
\* alone can be invalid
Validated(c) == call[c] # Undefined /\ call[c].op = "getJSON" /\ pc[c] # "idle"

\* the validation of the caller's operation has thrown
ValidationThrew(c) == Settled(c) /\ result[c] = Rejected("ValidationError")

\* C37: validateOptionalObject returns without error exactly when the value
\* is undefined or null or is an object whose properties all exist in the
\* model, and throws for every other value.
C37_Claimed ==
    \A c \in Clients :
        Validated(c) =>
            (~ValidationThrew(c)
                <=> IsOptionalObject(call[c].customOptions, DEFAULT_GET_JSON_OPTIONS))

\* a getJSON given the number 0 as options has passed validation and has
\* returned
C37_Witness ==
    \E c \in Clients :
        /\ Validated(c)
        /\ call[c].customOptions = Num(0)
        /\ Settled(c)
        /\ IsResolved(result[c])
        /\ calls[c] = <<"getEntry">>

\* the statement holds for the values that are not falsy, and for undefined
\* and null
C37_TruthyOrAbsent ==
    \A c \in Clients :
        (Validated(c) /\ (Truthy(call[c].customOptions)
                            \/ call[c].customOptions \in {Undefined, Null})) =>
            (~ValidationThrew(c)
                <=> IsOptionalObject(call[c].customOptions, DEFAULT_GET_JSON_OPTIONS))

\* a getJSON given a string as options has failed validation
C37_StringReached ==
    \E c \in Clients :
        /\ Validated(c)
        /\ call[c].customOptions = Str(<<"x">>)
        /\ ValidationThrew(c)
        /\ calls[c] = <<>>

TrimOps == {"trimPrefix", "trimSuffix"}

\* the caller has called a trim function and has not taken its result
IsTrim(c) == call[c] # Undefined /\ call[c].op \in TrimOps

\* the prefix or suffix the caller's trim function was given
Affix(c) == IF call[c].op = "trimPrefix" THEN call[c].args.prefix ELSE call[c].args.suffix

\* the result of the caller's trim function still has the prefix or suffix
StillHas(c) ==
    IF call[c].op = "trimPrefix"
    THEN startsWith(result[c].value.str, Affix(c))
    ELSE endsWith(result[c].value.str, Affix(c))

\* with no limit nothing is left to trim in the result; with limit n the body
\* of the loop ran at most n times
TrimResult(c) ==
    (IsTrim(c) /\ Settled(c)) =>
        IF call[c].args.limit = Undefined
        THEN ~StillHas(c)
        ELSE \/ call[c].trimmed = 0
             \/ call[c].trimmed <= call[c].args.limit.num

\* C38: trimPrefix and trimSuffix terminate for every string, every prefix or
\* suffix, the empty one included, and every limit or none; with no limit the
\* result neither starts with the prefix nor ends with the suffix, and with
\* limit n at most n occurrences are removed.
C38_Claimed ==
    /\ \A c \in Clients : (IsTrim(c) /\ ~Settled(c)) ~> Settled(c)
    /\ [](\A c \in Clients : TrimResult(c))

\* a trim function given the empty string to trim and no limit has gone
\* through the body of its loop more often than its string has characters
C38_Witness ==
    \E c \in Clients :
        /\ IsTrim(c)
        /\ pc[c] = "while"
        /\ Affix(c) = <<>>
        /\ call[c].args.limit = Undefined
        /\ call[c].trimmed = MaxTrimmed
        /\ call[c].str = call[c].args.str

\* the calls whose loop ends: something to trim, or a limit
Bounded(c) == Affix(c) # <<>> \/ call[c].args.limit # Undefined

\* whatever is to trim and whatever the limit, the result is as stated
C38_Results == \A c \in Clients : TrimResult(c)

\* every call with something to trim or with a limit terminates
C38_BoundedTerminates ==
    \A c \in Clients : (IsTrim(c) /\ ~Settled(c) /\ Bounded(c)) ~> Settled(c)

\* the loops return what the functions return
C38_SameAsFunction ==
    \A c \in Clients :
        (IsTrim(c) /\ Settled(c) /\ Bounded(c)) =>
            result[c].value.str =
                IF call[c].op = "trimPrefix"
                THEN trimPrefix(call[c].args.str, call[c].args.prefix, call[c].args.limit)
                ELSE trimSuffix(call[c].args.str, call[c].args.suffix, call[c].args.limit)

\* a call with a limit has stopped at its limit with more to trim
C38_LimitReached ==
    \E c \in Clients :
        /\ IsTrim(c)
        /\ Settled(c)
        /\ call[c].args.limit = Num(2)
        /\ call[c].trimmed = 2
        /\ Affix(c) # <<>>
        /\ StillHas(c)

LowerHexChars ==
    {"0", "1", "2", "3", "4", "5", "6", "7", "8", "9", "a", "b", "c", "d", "e", "f"}

\* a string of lowercase hex digits
IsLowerHex(str) == \A i \in DOMAIN str : str[i] \in LowerHexChars

\* the caller's call of the named function has returned or thrown
Converted(c, op) == Settled(c) /\ call[c].op = op

\* the byte array given to toHexString comes back from hexToUint8Array
BytesRoundTrip(c) ==
    LET back == hexToUint8Array(result[c].value.str)
    IN  ~back.threw /\ back.bytes = call[c].byteArray.bytes

\* the string given to hexToUint8Array comes back from toHexString
StringRoundTrip(c) ==
    /\ IsResolved(result[c])
    /\ toHexString(result[c].value.bytes) = call[c].str.str

\* hexToUint8Array has to throw: the empty string or a character that is no
\* hex digit
NoHex(str) == str = <<>> \/ \E i \in DOMAIN str : str[i] \notin HexChars

\* C39: hexToUint8Array(toHexString(b)) equals b for every non-empty byte
\* array b, toHexString(hexToUint8Array(s)) equals s for every non-empty
\* lowercase hex string s, and hexToUint8Array throws on the empty string and
\* on any string with a character that is no hex digit.
C39_Claimed ==
    \A c \in Clients :
        /\ (Converted(c, "toHexString") /\ call[c].byteArray.bytes # <<>>) =>
               BytesRoundTrip(c)
        /\ (Converted(c, "hexToUint8Array") /\ call[c].str.str # <<>>
                /\ IsLowerHex(call[c].str.str)) =>
               StringRoundTrip(c)
        /\ (Converted(c, "hexToUint8Array") /\ NoHex(call[c].str.str)) =>
               result[c] = Rejected("ValidationError")

\* hexToUint8Array given the three lowercase hex digits a0c has returned two
\* bytes, whose hex string has four digits
C39_Witness ==
    \E c \in Clients :
        /\ Converted(c, "hexToUint8Array")
        /\ call[c].str = Str(<<"a", "0", "c">>)
        /\ result[c] = Resolved(Bytes(<<160, 12>>))
        /\ toHexString(result[c].value.bytes) = <<"a", "0", "0", "c">>

\* the statement holds of the byte arrays, of the strings that hexToUint8Array
\* has to reject, and of the lowercase hex strings of even length
C39_EvenLength ==
    \A c \in Clients :
        /\ (Converted(c, "toHexString") /\ call[c].byteArray.bytes # <<>>) =>
               BytesRoundTrip(c)
        /\ (Converted(c, "hexToUint8Array") /\ call[c].str.str # <<>>
                /\ IsLowerHex(call[c].str.str) /\ Len(call[c].str.str) % 2 = 0) =>
               StringRoundTrip(c)
        /\ (Converted(c, "hexToUint8Array") /\ NoHex(call[c].str.str)) =>
               result[c] = Rejected("ValidationError")

\* toHexString has returned the digits of two bytes, of which one is below 16
C39_BytesReached ==
    \E c \in Clients :
        /\ Converted(c, "toHexString")
        /\ call[c].byteArray = Bytes(<<171, 9>>)
        /\ result[c] = Resolved(Str(<<"a", "b", "0", "9">>))
        /\ BytesRoundTrip(c)

\* hexToUint8Array has thrown on a string with a character that is no hex digit
C39_NoHexReached ==
    \E c \in Clients :
        /\ Converted(c, "hexToUint8Array")
        /\ call[c].str = Str(<<"a", "g">>)
        /\ result[c] = Rejected("ValidationError")

====
